---- MODULE Spec2Model ----
(***************************************************************************)
(* State-machine model of the Kconfig language server in                   *)
(* src/srv/kconfiglsp.py: the context manager (KconfigServer), the        *)
(* configuration context (KconfigContext), its node identifiers and the    *)
(* JSON-RPC dispatch loop (RPCServer.handle / loop).                       *)
(*                                                                         *)
(* Python strings are sequences of one-character strings, so that join,    *)
(* split, str() and int() are computed and not assumed to be inverses.     *)
(* A Python exception is a value [ok |-> FALSE, exc |-> <class name>].     *)
(***************************************************************************)
EXTENDS Integers, Sequences, FiniteSets, TLC

\* ------------------------------------------------------------------------
\* Bounds of the model
\* ------------------------------------------------------------------------
MaxCtx == 1        \* contexts the manager creates in one run
MaxVersion == 2    \* parse version up to which parse() is explored
MaxDocs == 1       \* documents after which no further didOpen is explored
MaxDiags == 3      \* recorded warnings up to which a refused setVal is explored

\* Op(e) with e evaluated once
Let(e, Op(_)) == CHOOSE y \in {Op(x) : x \in {e}} : TRUE

\* ------------------------------------------------------------------------
\* Python values
\* ------------------------------------------------------------------------
None == [ok |-> TRUE, none |-> TRUE]
Exc(name) == [ok |-> FALSE, exc |-> name]
Val(v) == [ok |-> TRUE, none |-> FALSE, val |-> v]
IsExc(r) == ~r.ok
IsNone(r) == r.ok /\ r.none
IsVal(r) == r.ok /\ ~r.none

PStr(s) == [t |-> "str", v |-> s]
PInt(n) == [t |-> "int", v |-> n]

Digits == <<"0", "1", "2", "3", "4", "5", "6", "7", "8", "9">>

DigitVal(ch) == (CHOOSE i \in 1..10 : Digits[i] = ch) - 1

IsDigit(ch) == \E i \in 1..10 : Digits[i] = ch

RECURSIVE NatStr(_)
NatStr(n) == IF n < 10 THEN <<Digits[n + 1]>>
             ELSE NatStr(n \div 10) \o <<Digits[(n % 10) + 1]>>

\* str(n) of a Python int
str(n) == IF n < 0 THEN <<"-">> \o NatStr(-n) ELSE NatStr(n)

RECURSIVE DigitsVal(_, _)
DigitsVal(s, acc) == IF s = <<>> THEN acc
                     ELSE DigitsVal(Tail(s), 10 * acc + DigitVal(Head(s)))

AllDigits(s) == s # <<>> /\ \A i \in 1..Len(s) : IsDigit(s[i])

\* int(s) of a Python str: an optional sign and decimal digits, ValueError
\* otherwise
int(s) ==
    IF AllDigits(s) THEN Val(DigitsVal(s, 0))
    ELSE IF s # <<>> /\ Head(s) = "-" /\ AllDigits(Tail(s))
         THEN Val(0 - DigitsVal(Tail(s), 0))
    ELSE IF s # <<>> /\ Head(s) = "+" /\ AllDigits(Tail(s))
         THEN Val(DigitsVal(Tail(s), 0))
    ELSE Exc("ValueError")

ID_SEP == "@"

RECURSIVE split(_, _)
\* s.split(sep) for a one-character separator: always at least one piece
split(s, sep) ==
    IF \A i \in 1..Len(s) : s[i] # sep THEN <<s>>
    ELSE LET k == CHOOSE i \in 1..Len(s) :
                     s[i] = sep /\ \A j \in 1..(i - 1) : s[j] # sep
         IN <<SubSeq(s, 1, k - 1)>> \o split(SubSeq(s, k + 1, Len(s)), sep)

RECURSIVE joinStr(_, _)
joinStr(parts, sep) ==
    IF parts = <<>> THEN <<>>
    ELSE IF Len(parts) = 1 THEN parts[1].v
    ELSE parts[1].v \o <<sep>> \o joinStr(Tail(parts), sep)

\* sep.join(parts): TypeError when an element of parts is not a str
join(parts, sep) ==
    IF \E i \in 1..Len(parts) : parts[i].t # "str" THEN Exc("TypeError")
    ELSE Val(joinStr(parts, sep))

\* list.index(x): position (from 0) of the first element equal to x
index(list, x) ==
    IF \E i \in 1..Len(list) : list[i] = x
    THEN Val((CHOOSE i \in 1..Len(list) :
                 list[i] = x /\ \A j \in 1..(i - 1) : list[j] # x) - 1)
    ELSE Exc("ValueError")

\* list[i] with Python's negative indices
subscript(list, i) ==
    IF i >= 0 /\ i < Len(list) THEN Val(list[i + 1])
    ELSE IF i < 0 /\ i + Len(list) >= 0 THEN Val(list[i + Len(list) + 1])
    ELSE Exc("IndexError")

\* ------------------------------------------------------------------------
\* The parsed Kconfig tree (the object kconfiglib.Kconfig builds from the
\* root file), as far as kconfiglsp.py reads it: top_node, the menus and
\* comments lists (menu nodes), the choices list (Choice objects), syms
\* (name -> Symbol with its nodes) and each node's item.
\* ------------------------------------------------------------------------
MenuNode(n) == [obj |-> "MenuNode", id |-> n]
Choice(n) == [obj |-> "Choice", id |-> n]

SymA == <<"A">>
SymB == <<"B">>
SymS == <<"S">>
SymI == <<"I">>
SymU == <<"U">>     \* a name no Kconfig file declares

S_MAINMENU == <<"M", "A", "I", "N", "M", "E", "N", "U">>
S_MENU == <<"M", "E", "N", "U">>
S_SYM == <<"S", "Y", "M">>
S_CHOICE == <<"C", "H", "O", "I", "C", "E">>
S_COMMENT == <<"C", "O", "M", "M", "E", "N", "T">>

\* a Symbol of the tree: its type, its nodes and the conjuncts of
\* direct_dep (symbol names)
Symbol(name, type, nodes, direct_dep) ==
    [name |-> name, type |-> type, nodes |-> nodes, direct_dep |-> direct_dep]

\* no node: the None of a parent, list or next link
NoNode == 0 - 1

\* mainmenu; menu M1 { config A; config B (bool, depends on A); choice;
\* comment }; config A (second definition); menu M2 {};
\* config S (bool); config I (int, depends on A && S).
\* B follows A and depends on it, I follows S and depends on it: each is
\* made the child of the symbol before it (an implicit submenu). The top
\* node, the menus and the choice are the nodes with is_menuconfig.
Kconf(root) ==
    [top_node |-> MenuNode(0),
     parent   |-> [n \in 0..9 |->
                      CASE n = 0            -> NoNode
                        [] n \in {2, 5, 6}  -> 1
                        [] n = 3            -> 2
                        [] n = 9            -> 8
                        [] OTHER            -> 0],
     list     |-> [n \in 0..9 |->
                      CASE n = 0 -> 1
                        [] n = 1 -> 2
                        [] n = 2 -> 3
                        [] n = 8 -> 9
                        [] OTHER -> NoNode],
     next     |-> [n \in 0..9 |->
                      CASE n = 1 -> 4
                        [] n = 2 -> 5
                        [] n = 5 -> 6
                        [] n = 4 -> 7
                        [] n = 7 -> 8
                        [] OTHER -> NoNode],
     is_menuconfig |-> [n \in 0..9 |-> n \in {0, 1, 5, 7}],
     menus    |-> <<MenuNode(1), MenuNode(7)>>,
     comments |-> <<MenuNode(6)>>,
     choices  |-> <<Choice(0)>>,
     syms     |-> [name \in {SymA, SymB, SymS, SymI} |->
                      CASE name = SymA ->
                             Symbol(SymA, "bool", <<MenuNode(2), MenuNode(4)>>,
                                    <<>>)
                        [] name = SymB ->
                             Symbol(SymB, "bool", <<MenuNode(3)>>,
                                    <<SymA>>)
                        [] name = SymS ->
                             Symbol(SymS, "bool", <<MenuNode(8)>>, <<>>)
                        [] OTHER ->
                             Symbol(SymI, "int", <<MenuNode(9)>>,
                                    <<SymA, SymS>>)],
     item     |-> [n \in 0..9 |->
                      CASE n \in {0, 1, 7} -> [kind |-> "MENU", ref |-> <<>>]
                        [] n \in {2, 4}    -> [kind |-> "SYM", ref |-> SymA]
                        [] n = 3           -> [kind |-> "SYM", ref |-> SymB]
                        [] n = 5           -> [kind |-> "CHOICE", ref |-> <<>>]
                        [] n = 8           -> [kind |-> "SYM", ref |-> SymS]
                        [] n = 9           -> [kind |-> "SYM", ref |-> SymI]
                        [] OTHER           -> [kind |-> "COMMENT", ref |-> <<>>]]]

AllNodes(root) == {MenuNode(n) : n \in DOMAIN Kconf(root).item}

NodeItem(k, node) == k.item[node.id]

\* parts of KconfigContext._node_id before the version is inserted
NodeIdParts(k, node) ==
    IF node = k.top_node THEN Val(<<PStr(S_MAINMENU)>>)
    ELSE IF NodeItem(k, node).kind = "MENU"
    THEN LET i == index(k.menus, node)
         IN IF IsExc(i) THEN i ELSE Val(<<PStr(S_MENU), PStr(str(i.val))>>)
    ELSE IF NodeItem(k, node).kind = "SYM"
    THEN LET sym == k.syms[NodeItem(k, node).ref]
             i == index(sym.nodes, node)
         IN IF IsExc(i) THEN i
            ELSE Val(<<PStr(S_SYM), PStr(sym.name), PStr(str(i.val))>>)
    ELSE IF NodeItem(k, node).kind = "CHOICE"
    THEN LET i == index(k.choices, node)
         IN IF IsExc(i) THEN i ELSE Val(<<PStr(S_CHOICE), PInt(i.val)>>)
    ELSE LET i == index(k.comments, node)
         IN IF IsExc(i) THEN i ELSE Val(<<PStr(S_COMMENT), PInt(i.val)>>)

\* KconfigContext._node_id(node): the id string, or the exception raised
_node_id(c, node) ==
    LET parts == NodeIdParts(Kconf(c.root), node)
    IN IF IsExc(parts) THEN parts
       ELSE join(<<PStr(str(c.version))>> \o parts.val, ID_SEP)

\* the branch of find_node taken once the version matched
FindByType(k, type, parts) ==
    IF type = S_MENU
    THEN IF parts = <<>> THEN Exc("IndexError")
         ELSE LET i == int(parts[1])
              IN IF IsExc(i) THEN i ELSE subscript(k.menus, i.val)
    ELSE IF type = S_SYM
    THEN IF parts = <<>> THEN Exc("IndexError")
         ELSE IF parts[1] \notin DOMAIN k.syms THEN Exc("KeyError")
         ELSE IF Len(parts) < 2 THEN Exc("IndexError")
         ELSE LET i == int(parts[2])
              IN IF IsExc(i) THEN i
                 ELSE subscript(k.syms[parts[1]].nodes, i.val)
    ELSE IF type = S_CHOICE
    THEN IF parts = <<>> THEN Exc("IndexError")
         ELSE LET i == int(parts[1])
              IN IF IsExc(i) THEN i ELSE subscript(k.choices, i.val)
    ELSE IF type = S_COMMENT
    THEN IF parts = <<>> THEN Exc("IndexError")
         ELSE LET i == int(parts[1])
              IN IF IsExc(i) THEN i ELSE subscript(k.comments, i.val)
    ELSE IF type = S_MAINMENU THEN Val(k.top_node)
    ELSE None

\* find_node without the comparison of versions
FindNodeAnyVersion(c, id) ==
    LET pieces == split(id, ID_SEP)
    IN IF Len(pieces) < 2 THEN Exc("ValueError")
       ELSE IF IsExc(int(pieces[1])) THEN int(pieces[1])
       ELSE FindByType(Kconf(c.root), pieces[2], SubSeq(pieces, 3, Len(pieces)))

\* KconfigContext.find_node(id): a node, None, or the exception raised
find_node(c, id) ==
    LET pieces == split(id, ID_SEP)
    IN IF Len(pieces) < 2 THEN Exc("ValueError")
       ELSE LET version == int(pieces[1])
            IN IF IsExc(version) THEN version
               ELSE IF version.val # c.version THEN None
               ELSE FindByType(Kconf(c.root), pieces[2],
                               SubSeq(pieces, 3, Len(pieces)))

\* ------------------------------------------------------------------------
\* Files, documents and .conf text
\* ------------------------------------------------------------------------
\* os.path.join(dir, base)
os_path_join(dir, base) == [dir |-> dir, base |-> base]

\* KconfigServer.__init__: the BoardConf the server is constructed with
board_conf == [name |-> "nrf52dk_nrf52832", arch |-> "arm",
               dir |-> "/home/trond/ncs/zephyr/boards/arm/nrf52dk_nrf52832"]

\* BoardConf.conf_files
BoardConfFiles(b) == <<os_path_join(b.dir, <<b.name, "_defconfig">>)>>

BoardPath == BoardConfFiles(board_conf)[1]
UserPath1 == os_path_join("/app", <<"prj", ".conf">>)
Paths == {BoardPath, UserPath1}

\* the root file of the Kconfig declaration tree, which the parser opens
\* through the document store
KconfigPath == os_path_join("/app", <<"Kconfig", "">>)

\* every path a document is stored under
StorePaths == Paths \cup {KconfigPath}

\* a .conf line "CONFIG_<sym>=<val>"
Line(sym, val) == [sym |-> sym, val |-> val]

\* document texts the client sends
FullText == <<Line(SymU, "y"), Line(SymA, "n"), Line(SymB, "y"), Line(SymB, "y")>>
Texts == {<<>>, FullText}

\* the files on disk and their content; UserPath1 is not saved yet
DiskFiles == {BoardPath}
DiskText(path) == <<Line(SymA, "y")>>

\* Kconfig root files: "Kconfig" parses, "Broken" makes the parser raise
Roots == {"Kconfig", "Broken"}
ParseOk(root) == root = "Kconfig"

\* environment maps of a build
Envs == {[BOARD |-> "nrf9160dk", BOARD_DIR |-> "/boards/nrf9160dk"]}
NoEnv == [BOARD |-> "", BOARD_DIR |-> ""]     \* {} of handle_open

\* TextDocument(uri, text): the text is set only when it is non-empty
\* (version is not 0, so that the document counts as modified), no mode
\* before it is opened, the scan position at 0; written records a call of
\* _write_to_disk
TextDocument(uri, text) ==
    [uri |-> uri, lines |-> text, loaded |-> text # <<>>,
     modified |-> TRUE, mode |-> "none", scanpos |-> 0, written |-> FALSE]

\* TextDocument.open(mode) of a document whose file exists when it has to
\* be read
TextDocument_open(doc, mode) ==
    IF mode = "w"
    THEN [doc EXCEPT !.lines = <<>>, !.loaded = TRUE, !.modified = TRUE,
                     !.mode = mode, !.scanpos = 0]
    ELSE IF ~doc.loaded
    THEN [doc EXCEPT !.lines = DiskText(doc.uri), !.loaded = TRUE,
                     !.modified = FALSE, !.mode = mode, !.scanpos = 0]
    ELSE [doc EXCEPT !.mode = mode, !.scanpos = 0]

\* TextDocument.close(), _write_to_disk included
TextDocument_close(doc) ==
    IF doc.mode \in {"a", "w"} /\ doc.modified
    THEN [doc EXCEPT !.written = TRUE, !.modified = FALSE, !.mode = "none"]
    ELSE [doc EXCEPT !.mode = "none"]

\* ------------------------------------------------------------------------
\* Diagnostics
\* ------------------------------------------------------------------------
ERROR == 1
WARNING == 2
KCONFIG_WARN_LVL == WARNING

\* Diagnostic(message, range, severity); the range is the line it starts on
Diagnostic(kind, sym, deps, line, severity) ==
    [message |-> [kind |-> kind, sym |-> sym, deps |-> deps],
     line |-> line, severity |-> severity]

\* Kconfig._warn(msg, filename, linenr): one entry of self.diags
Warn(kind, sym, filename, linenr) ==
    [filename |-> filename,
     diag |-> Diagnostic(kind, sym, <<>>, linenr - 1, KCONFIG_WARN_LVL)]

\* ------------------------------------------------------------------------
\* Symbol values
\* ------------------------------------------------------------------------
Syms(k) == DOMAIN k.syms

\* the order of kconfig.syms.values(): the order of declaration
SymOrder == <<SymA, SymB, SymS, SymI>>

\* the tristate value of a value string: STR_TO_TRI, 0 for anything else
TriVal(v) == IF v = "y" THEN 2 ELSE 0

\* the minimum of the tristate values of a sequence of them, y for none
MinTri(vals) ==
    IF \E i \in DOMAIN vals : vals[i] = 0 THEN 0 ELSE 2

RECURSIVE str_value(_, _, _)
\* Symbol.str_value of a symbol with a prompt and no default. A bool
\* symbol: the user value capped by the visibility its dependencies give.
\* An int symbol: the user value when the symbol is visible, "" otherwise
str_value(k, uv, name) ==
    LET sym == k.syms[name]
        vis == MinTri([i \in DOMAIN sym.direct_dep |->
                          TriVal(str_value(k, uv, sym.direct_dep[i]))])
    IN IF sym.type = "bool"
       THEN IF uv[name] = "y" /\ vis = 2 THEN "y" ELSE "n"
       ELSE IF uv[name] # "none" /\ vis = 2 THEN uv[name] ELSE ""

\* kconfiglib.expr_value of a conjunct of direct_dep, a symbol
expr_value(k, uv, dep) == TriVal(str_value(k, uv, dep))

\* bool/tristate: conjuncts below the requested value
MissingBelow(k, uv, name) ==
    SelectSeq(k.syms[name].direct_dep,
              LAMBDA d : expr_value(k, uv, d) < TriVal(uv[name]))

\* string/int/hex: conjuncts of value 0
MissingZero(k, uv, name) ==
    SelectSeq(k.syms[name].direct_dep, LAMBDA d : expr_value(k, uv, d) = 0)

\* a _missing_deps without the branch of the bool and tristate symbols
MissingOfAnyType(k, uv, name) == MissingZero(k, uv, name)

\* _missing_deps(sym)
_missing_deps(k, uv, name) ==
    IF k.syms[name].type = "bool" THEN MissingBelow(k, uv, name)
    ELSE MissingZero(k, uv, name)

\* ------------------------------------------------------------------------
\* The menu of a node
\* ------------------------------------------------------------------------
RECURSIVE ChildrenFrom(_, _)
\* the loop of _children from the sibling n on: each sibling, followed by
\* its own children when it has some and is no menuconfig
ChildrenFrom(k, n) ==
    IF n = NoNode THEN <<>>
    ELSE <<MenuNode(n)>>
         \o (IF k.list[n] # NoNode /\ ~k.is_menuconfig[n]
             THEN ChildrenFrom(k, k.list[n]) ELSE <<>>)
         \o ChildrenFrom(k, k.next[n])

\* _children(node)
_children(k, node) == ChildrenFrom(k, k.list[node.id])

RECURSIVE DepthFrom(_, _, _)
\* the loop of _suboption_depth at the ancestor parent; reading
\* is_menuconfig of the None above the top node raises
DepthFrom(k, parent, depth) ==
    IF parent = NoNode THEN Exc("AttributeError")
    ELSE IF k.is_menuconfig[parent] THEN Val(depth)
    ELSE DepthFrom(k, k.parent[parent], depth + 1)

\* _suboption_depth(node)
_suboption_depth(k, node) == DepthFrom(k, k.parent[node.id], 0)

\* KconfigMenu._menuitem(node): the dict is built key by key, and the
\* second one, 'loc', reads node.line, which a kconfiglib MenuNode does not
\* have (its line is linenr): the depth is never reached
_menuitem(k, node) == Exc("AttributeError")

\* KconfigMenu.items
items(k, node) ==
    LET children == _children(k, node)
    IN IF children = <<>> THEN Val(<<>>) ELSE _menuitem(k, children[1])

\* ------------------------------------------------------------------------
\* KconfigContext
\* ------------------------------------------------------------------------
DocRef(obj) == [isdoc |-> TRUE, obj |-> obj, path |-> os_path_join("", <<>>)]
StrRef(path) == [isdoc |-> FALSE, obj |-> 0, path |-> path]

\* ConfFile(doc)
ConfFile(doc) == [doc |-> doc, diags |-> <<>>]

EmptyFilename == os_path_join("", <<>>)     \* the filename ''

NoUserValues(k) == [n \in Syms(k) |-> "none"]
NoneSet(k) == [n \in Syms(k) |-> FALSE]

\* os.environ: the environment the server process was started with, in
\* which the variables of a build are not set; no statement of the server
\* assigns to it
os_environ == [BOARD |-> "", BOARD_DIR |-> ""]

\* KconfigContext.__init__; kconfig_env is the environment the parser read
\* when it built the context's Kconfig object
KconfigContext(root, conf_files, env, id) ==
    [id |-> id, root |-> root, env |-> env, conf_files |-> conf_files,
     kconfig_env |-> os_environ,
     version |-> 0, parsed |-> FALSE, menu |-> None,
     user_value |-> NoUserValues(Kconf(root)), was_set |-> NoneSet(Kconf(root)),
     kdiags |-> <<>>, cmd_diags |-> <<>>]

\* a clear_diags that clears nothing
ClearNothing(c) == c

\* KconfigContext.clear_diags
clear_diags(c) ==
    [c EXCEPT !.kdiags = <<>>, !.cmd_diags = <<>>,
              !.conf_files = [i \in DOMAIN c.conf_files |->
                                 [c.conf_files[i] EXCEPT !.diags = <<>>]]]

\* KconfigContext.parse with a root the parser accepts: a new Kconfig object
\* (no user values, no warnings) and the next version
parse(c) ==
    [clear_diags(c) EXCEPT !.menu = None, !.parsed = TRUE,
                           !.kconfig_env = os_environ,
                           !.user_value = NoUserValues(Kconf(c.root)),
                           !.was_set = NoneSet(Kconf(c.root)),
                           !.version = c.version + 1]

\* KconfigContext.has_file(uri); every entry is a ConfFile of a document
has_file(c, objs, uri) ==
    \E i \in DOMAIN c.conf_files : objs[c.conf_files[i].doc.obj].uri = uri

\* KconfigContext.conf_file(uri): index of the first entry of that uri, 0
\* for None
conf_file(c, objs, uri) ==
    IF has_file(c, objs, uri)
    THEN CHOOSE i \in DOMAIN c.conf_files :
             /\ objs[c.conf_files[i].doc.obj].uri = uri
             /\ \A j \in 1..(i - 1) : objs[c.conf_files[j].doc.obj].uri # uri
    ELSE 0

\* a parser that opens its files for appending
AppendMode == "a"

\* the mode kconfiglib opens Kconfig and .conf files with
OpenMode == "r"

\* Kconfig._open(filename, 'r') and the reading of its lines: the document
\* of the store when there is one (read from disk on first use, when it
\* was created without text), the file on disk otherwise
OpenRead(objs, store, path) ==
    IF store[path] # 0 /\ (objs[store[path]].loaded \/ path \in DiskFiles)
    THEN LET doc == TextDocument_open(objs[store[path]], OpenMode)
         IN [exc |-> "",
             objs |-> [objs EXCEPT ![store[path]] = TextDocument_close(doc)],
             lines |-> doc.lines]
    ELSE IF path \notin DiskFiles
    THEN [exc |-> "FileNotFoundError", objs |-> objs, lines |-> <<>>]
    ELSE [exc |-> "", objs |-> objs, lines |-> DiskText(path)]

\* the value literals of the .conf lines explored
Literals == {"y", "n", "16", "0x10"}

\* kconfiglib's _is_base_n(value, 10) on those literals
IsBase10(val) == val = "16"

\* the check of Symbol.set_value that the value fits the symbol's type
ValidFor(type, val) ==
    IF type = "bool" THEN val \in {"y", "n"} ELSE IsBase10(val)

\* Symbol.set_value(val) as _load_config calls it: an unchanged value only
\* marks the symbol as set, a value of the wrong type is refused with a
\* warning that carries no filename, any other value becomes the user value
SetValue(k, st, name, val) ==
    IF st.user_value[name] = val THEN [st EXCEPT !.was_set[name] = TRUE]
    ELSE IF ~ValidFor(k.syms[name].type, val)
    THEN [st EXCEPT !.kdiags = Append(@, Warn("invalid", name, EmptyFilename, 1))]
    ELSE [st EXCEPT !.user_value[name] = val, !.was_set[name] = TRUE]

\* kconfiglib's handling of one assignment line of a .conf file: a warning
\* for an undefined symbol, for a bool literal other than n and y, and for
\* a symbol set before; then set_value
ApplyLine(k, st, line, filename, linenr) ==
    IF line.sym \notin Syms(k)
    THEN [st EXCEPT !.kdiags = Append(@, Warn("undefined", line.sym, filename, linenr))]
    ELSE IF k.syms[line.sym].type = "bool" /\ line.val \notin {"y", "n"}
    THEN [st EXCEPT !.kdiags = Append(@, Warn("malformed", line.sym, filename, linenr))]
    ELSE LET st1 == IF st.was_set[line.sym]
                    THEN [st EXCEPT !.kdiags = Append(@,
                             Warn(IF st.user_value[line.sym] = line.val
                                  THEN "redundant" ELSE "override",
                                  line.sym, filename, linenr))]
                    ELSE st
         IN SetValue(k, st1, line.sym, line.val)

RECURSIVE LoadLines(_, _, _, _, _)
LoadLines(k, st, lines, filename, linenr) ==
    IF lines = <<>> THEN st
    ELSE LoadLines(k, ApplyLine(k, st, Head(lines), filename, linenr),
                   Tail(lines), filename, linenr + 1)

\* self._kconfig.load_config(filename, replace) on the lines read
KconfigLoadConfig(k, st, lines, filename, replace) ==
    LET st0 == IF replace THEN [st EXCEPT !.was_set = NoneSet(k)] ELSE st
        st1 == LoadLines(k, st0, lines, filename, 1)
    IN IF replace
       THEN [st1 EXCEPT !.user_value =
                [n \in Syms(k) |-> IF st1.was_set[n] THEN st1.user_value[n]
                                   ELSE "none"]]
       ELSE st1

ReplaceAlways(i) == TRUE

\* load_config: replace=(i == 0), i counted from 1 here
Replace(i) == i = 1

RECURSIVE LoadFiles(_, _, _, _)
\* the loop of load_config over conf_files, from entry i on
LoadFiles(c, acc, store, i) ==
    IF i > Len(c.conf_files) \/ acc.exc # "" THEN acc
    ELSE IF ~c.conf_files[i].doc.isdoc
    THEN [acc EXCEPT !.exc = "AttributeError"]
    ELSE LET path == acc.objs[c.conf_files[i].doc.obj].uri
             r == OpenRead(acc.objs, store, path)
         IN IF r.exc # "" THEN [acc EXCEPT !.exc = r.exc]
            ELSE LoadFiles(c,
                     [exc |-> "", objs |-> r.objs,
                      st |-> KconfigLoadConfig(Kconf(c.root), acc.st, r.lines,
                                               path, Replace(i))],
                     store, i + 1)

\* ConfFile.find(name): the lines of the file's document that assign name
find(doc, name) ==
    SelectSeq([i \in 1..Len(doc.lines) |-> i],
              LAMBDA i : doc.lines[i].sym = name)

\* the warning _check_user_vals builds for a symbol, as a diagnostic on line
UserValDiag(k, uv, name, line) ==
    Diagnostic(IF str_value(k, uv, name) # "" THEN "couldnt_be_set"
               ELSE "was_assigned",
               name, _missing_deps(k, uv, name), line - 1, WARNING)

RECURSIVE CheckSyms(_, _, _, _)
\* _check_user_vals for one file: the diagnostics appended to it, symbol by
\* symbol
CheckSyms(k, uv, doc, order) ==
    IF order = <<>> THEN <<>>
    ELSE LET name == Head(order)
             hit == uv[name] # "none" /\ uv[name] # str_value(k, uv, name)
             entries == find(doc, name)
         IN (IF hit THEN [e \in 1..Len(entries) |->
                             UserValDiag(k, uv, name, entries[e])]
             ELSE <<>>)
            \o CheckSyms(k, uv, doc, Tail(order))

\* KconfigContext._lint
_lint(c, objs) ==
    [c EXCEPT !.conf_files =
        [i \in DOMAIN c.conf_files |->
            [c.conf_files[i] EXCEPT !.diags =
                @ \o CheckSyms(Kconf(c.root), c.user_value,
                               objs[c.conf_files[i].doc.obj], SymOrder)]]]

RECURSIVE Keys(_, _)
\* the keys of the dict self._kconfig.diags in insertion order
Keys(kd, seen) ==
    IF kd = <<>> THEN <<>>
    ELSE IF Head(kd).filename \in seen THEN Keys(Tail(kd), seen)
    ELSE <<Head(kd).filename>> \o Keys(Tail(kd), seen \cup {Head(kd).filename})

\* every recorded diagnostic, whatever its filename
DiagsOfAll(kd, filename) == [i \in 1..Len(kd) |-> kd[i].diag]

\* self._kconfig.diags[filename]
DiagsOf(kd, filename) ==
    LET sel == SelectSeq(kd, LAMBDA e : e.filename = filename)
    IN [i \in 1..Len(sel) |-> sel[i].diag]

RECURSIVE CmdDiags(_, _, _, _)
\* the warnings load_config files under the command line: those of the
\* filename '' and those of a file that is no entry of conf_files
CmdDiags(c, objs, kd, keys) ==
    IF keys = <<>> THEN <<>>
    ELSE (IF Head(keys) = EmptyFilename \/ conf_file(c, objs, Head(keys)) = 0
          THEN DiagsOf(kd, Head(keys)) ELSE <<>>)
         \o CmdDiags(c, objs, kd, Tail(keys))

RECURSIVE ConfDiags(_, _, _, _, _)
ConfDiags(c, objs, kd, keys, i) ==
    IF keys = <<>> THEN <<>>
    ELSE (IF Head(keys) # EmptyFilename /\ conf_file(c, objs, Head(keys)) = i
          THEN DiagsOf(kd, Head(keys)) ELSE <<>>)
         \o ConfDiags(c, objs, kd, Tail(keys), i)

\* the last loop of load_config: every warning of self._kconfig.diags goes
\* to the file it names or to cmd_diags
Distribute(c, objs) ==
    LET keys == Keys(c.kdiags, {})
    IN [c EXCEPT !.cmd_diags = @ \o CmdDiags(c, objs, c.kdiags, keys),
                 !.conf_files =
                    [i \in DOMAIN c.conf_files |->
                        [c.conf_files[i] EXCEPT !.diags =
                            @ \o ConfDiags(c, objs, c.kdiags, keys, i)]]]

\* the state load_config leaves when its loop ended as r
AfterLoad(c0, r) ==
    LET c1 == [c0 EXCEPT !.user_value = r.st.user_value,
                         !.was_set = r.st.was_set, !.kdiags = r.st.kdiags]
    IN IF r.exc # "" THEN [exc |-> r.exc, c |-> c1, objs |-> r.objs]
       ELSE [exc |-> "",
             c |-> Let(_lint(c1, r.objs), LAMBDA c2 : Distribute(c2, r.objs)),
             objs |-> r.objs]

\* KconfigContext.load_config: [exc, c, objs], exc = "" when it returns
load_config(c, objs, store) ==
    Let(clear_diags(c), LAMBDA c0 :
        Let(LoadFiles(c0,
                      [exc |-> "", objs |-> objs,
                       st |-> [user_value |-> c0.user_value,
                               was_set |-> c0.was_set, kdiags |-> c0.kdiags]],
                      store, 1),
            LAMBDA r : AfterLoad(c0, r)))

\* KconfigContext.get_menu(id): None, or the exception raised; the call
\* KconfigMenu(node, id) passes two arguments to a constructor of three
get_menu(c, id) ==
    LET id1 == IF id = <<>> THEN c.menu ELSE Val(id)
    IN IF IsNone(id1) \/ id1.val = <<>> THEN None
       ELSE LET node == find_node(c, id1.val)
            IN IF IsExc(node) THEN node
               ELSE IF IsNone(node) THEN None
               ELSE Exc("TypeError")
\* ------------------------------------------------------------------------
\* The server: RPCServer, LSPServer, KconfigServer
\* ------------------------------------------------------------------------
VARIABLES
    objs,       \* the TextDocument objects created so far
    store,      \* DocumentStore.docs: path -> index into objs, 0 for none
    ctx,        \* KconfigServer.ctx: the context of id i is ctx[i + 1]
    next_id,    \* KconfigServer._next_id
    last_ctx,   \* KconfigServer.last_ctx: a context id, -1 for None
    msg,        \* the message handle() was last called with
    out,        \* what send() wrote while that message was handled
    best,       \* what best_ctx returned while it was handled
    crashed,    \* an exception has left loop()
    sent        \* how many messages of out are written to the output stream

vars == <<objs, store, ctx, next_id, last_ctx, msg, out, best, crashed, sent>>

METHOD_NOT_FOUND == 0 - 32601
UNKNOWN_ERROR_CODE == 0 - 32001
UNKNOWN_NODE == 1
DESYNC == 2

NotCalled == 0 - 2      \* best: best_ctx was not called
NoCtx == 0 - 1          \* best_ctx returned None / last_ctx is None

ReqIds == {1}

NullResult == [t |-> "null", id |-> 0]
CtxResult(id) == [t |-> "ctx", id |-> id]
HoverResult == [t |-> "hover", id |-> 0]

\* RPCNotification('textDocument/publishDiagnostics', {uri, diagnostics})
Publish(uri, diags) ==
    [kind |-> "publishDiagnostics", uri |-> uri, diagnostics |-> diags,
     id |-> 0, result |-> NullResult, error |-> 0]

\* RPCResponse(id, result, error); error 0 stands for no error
Response(id, result, error) ==
    [kind |-> "response", uri |-> EmptyFilename, diagnostics |-> <<>>,
     id |-> id, result |-> result, error |-> error]

\* Uri.file('command-line')
CommandLineUri == os_path_join("", <<"command-line", "">>)

\* the publish_diags calls for every entry of a context's conf_files
PublishConfs(c, os) ==
    [i \in DOMAIN c.conf_files |->
        Publish(os[c.conf_files[i].doc.obj].uri, c.conf_files[i].diags)]

\* DocumentStore.create(uri): [exc, objs, store, obj]
DocCreate(os, st, path) ==
    IF st[path] # 0 THEN [exc |-> "", objs |-> os, store |-> st, obj |-> st[path]]
    ELSE IF path \notin DiskFiles
    THEN [exc |-> "FileNotFoundError", objs |-> os, store |-> st, obj |-> 0]
    ELSE [exc |-> "",
          objs |-> Append(os, TextDocument(path, DiskText(path))),
          store |-> [st EXCEPT ![path] = Len(os) + 1],
          obj |-> Len(os) + 1]

\* the .conf list create_ctx hands to KconfigContext: the documents of the
\* board's conf_files, then the files given
CtxConfFiles(boardobj, conf_files) == <<ConfFile(DocRef(boardobj))>> \o conf_files

\* KconfigServer.create_ctx from the KconfigContext constructor to the
\* return of load_config, b being what DocumentStore.create returned
BuildWith(b, os, st, root, conf_files, env, id) ==
    LET c0 == KconfigContext(root, CtxConfFiles(b.obj, conf_files), env, id)
    IN IF b.exc # ""
       THEN [exc |-> b.exc, objs |-> os, store |-> st, c |-> c0]
       ELSE IF ~ParseOk(root)
       THEN [exc |-> "KconfigError", objs |-> b.objs, store |-> b.store, c |-> c0]
       ELSE Let(load_config(parse(c0), b.objs, b.store),
                LAMBDA l : [exc |-> l.exc, objs |-> l.objs, store |-> b.store,
                            c |-> l.c])

\* KconfigServer.create_ctx up to the return of load_config:
\* [exc, objs, store, c]
BuildCtx(os, st, root, conf_files, env, id) ==
    Let(DocCreate(os, st, BoardConfFiles(board_conf)[1]),
        LAMBDA b : BuildWith(b, os, st, root, conf_files, env, id))

Init ==
    /\ objs = <<>>
    /\ store = [p \in StorePaths |-> 0]
    /\ ctx = <<>>
    /\ next_id = 0
    /\ last_ctx = NoCtx
    /\ msg = [method |-> "none"]
    /\ out = <<>>
    /\ best = NotCalled
    /\ crashed = FALSE
    /\ sent = 0

\* a loop that reads the next frame whatever is still to be written
LoopAnyTime == TRUE

\* RPCServer.loop is at _recv: handle() has returned, so every message the
\* handler sent and the response are written and flushed
LoopIdle == sent = Len(out)

\* RPCServer.send: the next message of the handler is written to the output
\* stream and flushed
Send ==
    /\ sent < Len(out)
    /\ sent' = sent + 1
    /\ UNCHANGED <<objs, store, ctx, next_id, last_ctx, msg, out, best, crashed>>

\* a create_ctx that advances _next_id before it parses, so that a
\* creation that fails has consumed the id
RegisterEarly(built, response) == \E r \in {built} :
    /\ objs' = r.objs
    /\ store' = r.store
    /\ next_id' = next_id + 1
    /\ IF r.exc # ""
       THEN /\ crashed' = TRUE
            /\ out' = <<>>
            /\ UNCHANGED <<ctx, last_ctx>>
       ELSE /\ crashed' = FALSE
            /\ ctx' = Append(ctx, r.c)
            /\ last_ctx' = r.c.id
            /\ out' = PublishConfs(r.c, r.objs) \o response

\* KconfigServer.create_ctx after BuildCtx returned r: the context is
\* registered and its diagnostics are published, unless r is an exception
Register(built, response) == \E r \in {built} :
    /\ objs' = r.objs
    /\ store' = r.store
    /\ IF r.exc # ""
       THEN /\ crashed' = TRUE
            /\ out' = <<>>
            /\ UNCHANGED <<ctx, next_id, last_ctx>>
       ELSE /\ crashed' = FALSE
            /\ ctx' = Append(ctx, r.c)
            /\ next_id' = next_id + 1
            /\ last_ctx' = r.c.id
            /\ out' = PublishConfs(r.c, r.objs) \o response

\* textDocument/didOpen: LSPServer.handle_open, then a context for a
\* document of language 'properties'
HandleOpen(uri, text, lang) ==
    /\ ~crashed
    /\ LoopIdle
    /\ sent' = 0
    /\ Len(objs) < MaxDocs
    /\ msg' = [method |-> "textDocument/didOpen", uri |-> uri, lang |-> lang]
    /\ best' = NotCalled
    /\ LET os == Append(objs, TextDocument(uri, text))
           st == [store EXCEPT ![uri] = Len(objs) + 1]
       IN IF lang = "properties"
          THEN Register(BuildCtx(os, st, "Kconfig",
                                 <<ConfFile(DocRef(Len(objs) + 1))>>,
                                 NoEnv, next_id), <<>>)
          ELSE /\ objs' = os
               /\ store' = st
               /\ out' = <<>>
               /\ UNCHANGED <<ctx, next_id, last_ctx, crashed>>

\* kconfig/createCtx: handle_create_ctx wraps every element of
\* params['conf'], a string, in a ConfFile
HandleCreateCtx(id, root, conf, env) ==
    /\ ~crashed
    /\ LoopIdle
    /\ sent' = 0
    /\ msg' = [method |-> "kconfig/createCtx", id |-> id, root |-> root,
               conf |-> conf, env |-> env]
    /\ best' = NotCalled
    /\ Register(BuildCtx(objs, store, root,
                         [i \in DOMAIN conf |-> ConfFile(StrRef(conf[i]))],
                         env, next_id),
                <<Response(id, CtxResult(next_id), 0)>>)

\* a server that drops a request of a method without handler
HandleUnknownSilent(id, method) ==
    /\ ~crashed
    /\ LoopIdle
    /\ sent' = 0
    /\ msg' = [method |-> method, id |-> id]
    /\ best' = NotCalled
    /\ out' = <<>>
    /\ UNCHANGED <<objs, store, ctx, next_id, last_ctx, crashed>>

\* a notification of a method without handler: self.req is None, nothing
\* is sent
HandleUnknownNotification(method) ==
    /\ ~crashed
    /\ LoopIdle
    /\ sent' = 0
    /\ msg' = [method |-> method]
    /\ best' = NotCalled
    /\ out' = <<>>
    /\ UNCHANGED <<objs, store, ctx, next_id, last_ctx, crashed>>

\* a request of a method without handler: RPCServer.handle answers
\* METHOD_NOT_FOUND
HandleUnknown(id, method) ==
    /\ ~crashed
    /\ LoopIdle
    /\ sent' = 0
    /\ msg' = [method |-> method, id |-> id]
    /\ best' = NotCalled
    /\ out' = <<Response(id, NullResult, METHOD_NOT_FOUND)>>
    /\ UNCHANGED <<objs, store, ctx, next_id, last_ctx, crashed>>

\* TextDocument.replace(text) without a range
DocReplace(doc, text) ==
    [doc EXCEPT !.lines = text, !.loaded = TRUE, !.modified = TRUE]

\* the contexts handle_change reloads and publishes: last_ctx, when set
ChangeTargets == IF last_ctx = NoCtx THEN <<>> ELSE <<last_ctx>>

\* textDocument/didChange with one change of the whole text:
\* LSPServer.handle_change, then load_config and publish_diags
HandleChange(uri, text) ==
    /\ ~crashed
    /\ LoopIdle
    /\ sent' = 0
    /\ msg' = [method |-> "textDocument/didChange", uri |-> uri]
    /\ best' = NotCalled
    /\ UNCHANGED <<store, next_id, last_ctx>>
    /\ LET os == IF store[uri] = 0 THEN objs
                 ELSE [objs EXCEPT ![store[uri]] = DocReplace(@, text)]
       IN IF ChangeTargets = <<>>
          THEN /\ objs' = os
               /\ out' = <<>>
               /\ UNCHANGED <<ctx, crashed>>
          ELSE LET t == ChangeTargets[1]
               IN \E l \in {load_config(ctx[t + 1], os, store)} :
                  /\ objs' = l.objs
                  /\ ctx' = [ctx EXCEPT ![t + 1] = l.c]
                  /\ crashed' = (l.exc # "")
                  /\ out' = IF l.exc # "" THEN <<>>
                            ELSE PublishConfs(l.c, l.objs)
                                 \o <<Publish(CommandLineUri, l.c.cmd_diags)>>

\* RPCServer.handle for a request whose handler returned r (a value, None
\* or an exception): the exception is raised again and leaves loop()
Respond(id, r, result) ==
    IF IsExc(r) THEN <<>> ELSE <<Response(id, result, 0)>>

\* kconfig/setMenu
HandleSetMenu(id, c, nodeid) ==
    /\ ~crashed
    /\ LoopIdle
    /\ sent' = 0
    /\ msg' = [method |-> "kconfig/setMenu", id |-> id, ctx |-> c,
               nodeid |-> nodeid]
    /\ best' = NotCalled
    /\ UNCHANGED <<objs, store, next_id, last_ctx>>
    /\ IF c + 1 \notin DOMAIN ctx
       THEN /\ crashed' = TRUE          \* KeyError
            /\ out' = <<>>
            /\ UNCHANGED ctx
       ELSE LET c1 == [ctx[c + 1] EXCEPT !.menu = Val(nodeid)]
                r == get_menu(c1, nodeid)
            IN /\ ctx' = [ctx EXCEPT ![c + 1] = c1]
               /\ crashed' = IsExc(r)
               /\ out' = Respond(id, r, NullResult)

\* Symbol.set_value(val) returns True: the value is the user value already
\* or fits the type
SetValueOk(k, uv, name, val) ==
    uv[name] = val \/ ValidFor(k.syms[name].type, val)

\* KconfigContext.set(name, val): the context it leaves and the exception it
\* raises. An unknown name raises RPCError(UNKNOWN_NODE); after a successful
\* set_value, self.modified.append fails, modified being the dict of parse()
ctx_set(c, name, val) ==
    LET k == Kconf(c.root)
        st == SetValue(k, [user_value |-> c.user_value, was_set |-> c.was_set,
                           kdiags |-> c.kdiags], name, val)
    IN IF name \notin Syms(k) THEN [exc |-> "RPCError", c |-> c]
       ELSE [exc |-> IF SetValueOk(k, c.user_value, name, val)
                     THEN "AttributeError" ELSE "",
             c |-> [c EXCEPT !.user_value = st.user_value,
                             !.was_set = st.was_set, !.kdiags = st.kdiags]]

\* KconfigContext.unset(name): Symbol.unset_value of a known symbol
ctx_unset(c, name) ==
    IF name \notin Syms(Kconf(c.root)) THEN c
    ELSE [c EXCEPT !.user_value[name] = "none"]

\* params of kconfig/setVal without the key 'val'
NoVal == "none"

\* kconfig/setVal
HandleSetVal(id, c, name, val) ==
    /\ ~crashed
    /\ LoopIdle
    /\ sent' = 0
    /\ msg' = [method |-> "kconfig/setVal", id |-> id, ctx |-> c,
               name |-> name, val |-> val]
    /\ best' = NotCalled
    /\ UNCHANGED <<objs, store, next_id, last_ctx>>
    /\ IF c + 1 \notin DOMAIN ctx
       THEN /\ crashed' = TRUE          \* KeyError
            /\ out' = <<>>
            /\ UNCHANGED ctx
       ELSE IF val = NoVal
       THEN /\ ctx' = [ctx EXCEPT ![c + 1] = ctx_unset(@, name)]
            /\ crashed' = FALSE
            /\ out' = <<Response(id, NullResult, 0)>>
       ELSE \E r \in {ctx_set(ctx[c + 1], name, val)} :
            /\ ctx' = [ctx EXCEPT ![c + 1] = r.c]
            /\ crashed' = (r.exc # "")
            /\ out' = IF r.exc # "" THEN <<>>
                      ELSE <<Response(id, NullResult, 0)>>

\* self.ctx.items(): (id, context) tuples
CtxItems == [i \in DOMAIN ctx |-> <<i - 1, ctx[i]>>]

\* KconfigServer.best_ctx(uri): [exc, ret, last]; the generator calls
\* has_file on the first tuple of items(), which has no such attribute
best_ctx(uri) ==
    IF last_ctx # NoCtx /\ has_file(ctx[last_ctx + 1], objs, uri)
    THEN [exc |-> "", ret |-> last_ctx, last |-> last_ctx]
    ELSE IF CtxItems = <<>>
    THEN [exc |-> "", ret |-> NoCtx, last |-> last_ctx]
    ELSE [exc |-> "AttributeError", ret |-> NoCtx, last |-> last_ctx]

\* KconfigContext.symbol_at(uri, pos) with pos at the start of line: the
\* symbol CONFIG_<name> of that line, None, or the exception raised
symbol_at(c, uri, line) ==
    IF store[uri] = 0 THEN None
    ELSE LET doc == objs[store[uri]]
         IN IF ~doc.loaded THEN Exc("AttributeError")
            ELSE IF line >= Len(doc.lines) THEN Exc("TypeError")
            ELSE IF doc.lines[line + 1].sym \in Syms(Kconf(c.root))
            THEN Val(doc.lines[line + 1].sym)
            ELSE None

\* textDocument/hover: get_sym, then the hover contents of the symbol
HandleHover(id, uri, line) ==
    /\ ~crashed
    /\ LoopIdle
    /\ sent' = 0
    /\ msg' = [method |-> "textDocument/hover", id |-> id, uri |-> uri]
    /\ UNCHANGED <<objs, store, ctx, next_id>>
    /\ LET b == best_ctx(uri)
           sym == symbol_at(ctx[b.ret + 1], uri, line)
       IN /\ best' = IF b.exc # "" THEN NotCalled ELSE b.ret
          /\ last_ctx' = b.last
          /\ IF b.exc # "" THEN crashed' = TRUE /\ out' = <<>>
             ELSE IF b.ret = NoCtx
             THEN crashed' = FALSE /\ out' = <<Response(id, NullResult, 0)>>
             ELSE /\ crashed' = IsExc(sym)
                  /\ out' = Respond(id, sym, IF IsNone(sym) THEN NullResult
                                             ELSE HoverResult)

\* a call of KconfigContext.parse() on a registered context
Reparse(c) ==
    /\ ~crashed
    /\ LoopIdle
    /\ sent' = 0
    /\ c + 1 \in DOMAIN ctx
    /\ ctx[c + 1].version < MaxVersion
    /\ ctx' = [ctx EXCEPT ![c + 1] = parse(@)]
    /\ msg' = [method |-> "parse", ctx |-> c]
    /\ out' = <<>>
    /\ best' = NotCalled
    /\ UNCHANGED <<objs, store, next_id, last_ctx, crashed>>

\* node ids a client may present: <version>@<payload>
Payloads ==
    {S_MAINMENU,
     S_MENU \o <<"@", "5">>,
     S_SYM \o <<"@", "U", "@", "0">>,
     <<"B", "O", "G", "U", "S">>}

NodeIdInputs == {str(v) \o <<"@">> \o p : v \in 1..MaxVersion, p \in Payloads}

\* the ids of the top node at every version
TopIdInputs == {str(v) \o <<"@">> \o S_MAINMENU : v \in 1..MaxVersion}

ConfInputs == {<<>>, <<UserPath1>>}

\* the names and values of the kconfig/setVal requests explored
SetValNames == {SymA, SymB, SymU}
SetValVals == {"y", NoVal}

\* the messages the client may send, with documents, texts and node ids
\* drawn from the given sets, as long as fewer than maxctx contexts exist
NextOn(paths, texts, nodeids, maxctx) ==
    \/ \E uri \in paths, text \in texts, lang \in {"properties", "kconfig"} :
           /\ lang = "properties" => next_id < maxctx
           /\ HandleOpen(uri, text, lang)
    \/ \E uri \in paths, text \in texts : HandleChange(uri, text)
    \/ \E id \in ReqIds, root \in Roots, conf \in ConfInputs, env \in Envs :
           /\ next_id < maxctx
           /\ HandleCreateCtx(id, root, conf, env)
    \/ \E id \in ReqIds : HandleUnknown(id, "kconfig/addBuild")
    \/ HandleUnknownNotification("kconfig/addBuild")
    \/ \E id \in ReqIds, c \in 0..(maxctx - 1), nodeid \in nodeids :
           HandleSetMenu(id, c, nodeid)
    \/ \E id \in ReqIds, uri \in paths : HandleHover(id, uri, 0)
    \/ Send

\* the server under every document and text, with the ids of the top node
Next == NextOn(Paths, Texts, TopIdInputs, MaxCtx)

Spec == Init /\ [][Next]_vars

\* the server with the root file of the declaration tree among the
\* documents the client opens and changes
NextTree == NextOn({UserPath1, KconfigPath}, Texts, TopIdInputs, MaxCtx)

SpecTree == Init /\ [][NextTree]_vars

\* the life of the manager's table of contexts, with one context more:
\* creations that succeed and that fail, and the requests that work on a
\* registered context
NextIds ==
    \/ \E text \in Texts, lang \in {"properties", "kconfig"} :
           /\ lang = "properties" => next_id < MaxCtx + 1
           /\ HandleOpen(UserPath1, text, lang)
    \/ \E id \in ReqIds, root \in Roots, conf \in ConfInputs, env \in Envs :
           /\ next_id < MaxCtx + 1
           /\ HandleCreateCtx(id, root, conf, env)
    \/ \E id \in ReqIds, c \in 0..MaxCtx : HandleSetVal(id, c, SymA, NoVal)
    \/ \E c \in 0..MaxCtx : Reparse(c)
    \/ Send

SpecIds == Init /\ [][NextIds]_vars

\* the same with one context more, and with user values set and unset
NextMulti ==
    \/ NextOn(Paths, Texts, TopIdInputs, MaxCtx + 1)
    \/ \E id \in ReqIds, c \in 0..MaxCtx, name \in SetValNames,
          val \in SetValVals : HandleSetVal(id, c, name, val)

SpecMulti == Init /\ [][NextMulti]_vars

\* the life of the contexts under every node id: contexts are created by
\* didOpen and kconfig/createCtx, parsed again, and addressed by
\* kconfig/setMenu
NextCtx ==
    \/ \E uri \in {UserPath1}, text \in Texts, lang \in {"properties", "kconfig"} :
           /\ lang = "properties" => next_id < MaxCtx
           /\ HandleOpen(uri, text, lang)
    \/ \E id \in ReqIds, root \in Roots, conf \in ConfInputs, env \in Envs :
           /\ next_id < MaxCtx
           /\ HandleCreateCtx(id, root, conf, env)
    \/ \E id \in ReqIds, c \in 0..(MaxCtx - 1), nodeid \in NodeIdInputs :
           HandleSetMenu(id, c, nodeid)
    \/ \E c \in 0..(MaxCtx - 1) : Reparse(c)
    \/ Send

SpecCtx == Init /\ [][NextCtx]_vars

\* .conf texts that make every warning and every check of the pipeline
\* happen: redundant and overriding assignments, an undefined symbol,
\* literals of the wrong type, symbols whose dependencies are not met
LintTexts ==
    {<<Line(SymA, "y"), Line(SymS, "y"), Line(SymI, "16")>>,
     <<Line(SymA, "n"), Line(SymB, "y"), Line(SymI, "16")>>,
     <<Line(SymI, "0x10")>>,
     <<Line(SymS, "y"), Line(SymI, "16"), Line(SymI, "0x10")>>,
     <<Line(SymU, "y"), Line(SymB, "y"), Line(SymB, "n"), Line(SymI, "16")>>,
     <<Line(SymA, "0x10"), Line(SymS, "y")>>,
     <<Line(SymA, "n"), Line(SymB, "n")>>}

\* the server with one .conf document of those texts: contexts are created
\* for it, it is changed, and user values are set and unset
NextLint ==
    \/ \E text \in LintTexts, lang \in {"properties", "kconfig"} :
           /\ lang = "properties" => next_id < MaxCtx
           /\ HandleOpen(UserPath1, text, lang)
    \/ \E text \in LintTexts : HandleChange(UserPath1, text)
    \/ \E id \in ReqIds, c \in 0..(MaxCtx - 1), name \in {SymB, SymI, SymU},
          val \in {"y", "16", NoVal} :
           /\ c + 1 \in DOMAIN ctx => Len(ctx[c + 1].kdiags) < MaxDiags
           /\ HandleSetVal(id, c, name, val)
    \/ Send

SpecLint == Init /\ [][NextLint]_vars

\* ------------------------------------------------------------------------
\* Properties
\* ------------------------------------------------------------------------
Registered == {ctx[i] : i \in DOMAIN ctx}

IsSetMenu == msg.method = "kconfig/setMenu"

\* the context a setMenu request addresses, when it is registered
Addressed == ctx[msg.ctx + 1]

\* C1: for every menu node N of a parsed context, find_node(_node_id(N))
\* returns exactly N while the context is not parsed again.
C1_RoundTrip ==
    \A c \in Registered : \A n \in AllNodes(c.root) :
        /\ IsVal(_node_id(c, n))
        /\ find_node(c, _node_id(c, n).val) = Val(n)

\* a payload of every kind, and one of no kind
KindPayloads ==
    {S_MAINMENU,
     S_MENU \o <<"@", "0">>,
     S_SYM \o <<"@", "A", "@", "1">>,
     S_CHOICE \o <<"@", "0">>,
     S_COMMENT \o <<"@", "0">>,
     <<"B", "O", "G", "U", "S">>}

\* find_node answers None for every id <version>@<kind>[@<payload>] of
\* another version than the context's
StaleIdsNotFound ==
    \A c \in Registered : \A v \in 0..(MaxVersion + 1) : \A p \in KindPayloads :
        v # c.version => IsNone(find_node(c, str(v) \o <<"@">> \o p))

\* a step that calls parse() on a context raises its version; no step
\* lowers a version
VersionsGrow ==
    \A i \in DOMAIN ctx :
        /\ ctx'[i].version >= ctx[i].version
        /\ msg'.method = "parse" /\ msg'.ctx = i - 1
               => ctx'[i].version > ctx[i].version

\* C2: an id of a version other than the context's current one is not
\* found, whatever its kind and payload, and since every parse() strictly
\* increases the version, an id issued before a reparse never resolves
\* again.
C2_StaleIdNeverResolves == []StaleIdsNotFound /\ [][VersionsGrow]_vars

\* a reparsed context was asked for the menu of an id of its first version
\* and the request was answered
C2_Witness ==
    /\ IsSetMenu
    /\ msg.ctx + 1 \in DOMAIN ctx
    /\ Addressed.version = 2
    /\ msg.nodeid = <<"1", "@">> \o S_MAINMENU
    /\ Len(out) = 1

\* the id of a setMenu request was issued by an earlier version of the
\* addressed context
StaleRequest ==
    /\ IsSetMenu
    /\ msg.ctx + 1 \in DOMAIN ctx
    /\ \E v \in 1..(Addressed.version - 1) : \E n \in AllNodes(Addressed.root) :
           _node_id([Addressed EXCEPT !.version = v], n) = Val(msg.nodeid)

\* C3: a setMenu request with a node id of an earlier parse version of the
\* addressed context is answered with an error response of code Desync.
C3_StaleIdIsDesync ==
    StaleRequest =>
        /\ Len(out) = 1
        /\ out[1].kind = "response"
        /\ out[1].error = DESYNC

\* the id of a setMenu request carries the version of the addressed context
\* and names no node
UnknownRequest ==
    /\ IsSetMenu
    /\ msg.ctx + 1 \in DOMAIN ctx
    /\ int(split(msg.nodeid, ID_SEP)[1]) = Val(Addressed.version)
    /\ ~IsVal(find_node(Addressed, msg.nodeid))

\* C4: a setMenu request whose id has the current version but resolves to
\* no node is answered with an error response of code UnknownNode.
C4_UnresolvedIdIsUnknownNode ==
    UnknownRequest =>
        /\ Len(out) = 1
        /\ out[1].kind = "response"
        /\ out[1].error = UNKNOWN_NODE

\* the id of a setMenu request names a node of the addressed context
ValidRequest ==
    /\ IsSetMenu
    /\ msg.ctx + 1 \in DOMAIN ctx
    /\ \E n \in AllNodes(Addressed.root) : find_node(Addressed, msg.nodeid) = Val(n)

\* C5: for a node id valid at the current version, setMenu returns the
\* menu descriptor of that node and the id becomes the focused menu id.
C5_ValidIdReturnsMenu ==
    ValidRequest =>
        /\ Len(out) = 1
        /\ out[1].kind = "response"
        /\ out[1].error = 0
        /\ out[1].result.t = "menu"
        /\ Addressed.menu = Val(msg.nodeid)

\* the text load_config reads for entry i of a context's .conf list
ConfText(c, i) == objs[store[objs[c.conf_files[i].doc.obj].uri]].lines

\* the lines of a text that assign name a literal of its type (an
\* assignment of another literal is ignored with a warning)
Assigns(text, name) ==
    {j \in 1..Len(text) : text[j].sym = name /\ text[j].val \in {"y", "n", "16"}
                             /\ (text[j].val = "16") = (name = SymI)}

SetMax(S) == CHOOSE x \in S : \A y \in S : y <= x

\* the value the last assignment of name has in the file of highest index
\* that assigns it, "none" when no file does
LastAssigned(c, name) ==
    LET files == {i \in DOMAIN c.conf_files : Assigns(ConfText(c, i), name) # {}}
    IN IF files = {} THEN "none"
       ELSE LET text == ConfText(c, SetMax(files))
            IN text[SetMax(Assigns(text, name))].val

\* the last message made the server run load_config on last_ctx
JustLoaded ==
    /\ ~crashed
    /\ last_ctx # NoCtx
    /\ \/ msg.method \in {"textDocument/didChange", "kconfig/createCtx"}
       \/ msg.method = "textDocument/didOpen" /\ msg.lang = "properties"

\* C6: load_config applies the .conf files in list order, the first with
\* replace semantics and the later ones with merge semantics: the user
\* value of a symbol is that of the file of highest index assigning it, and
\* a symbol no file assigns has none.
C6_LoadOrder ==
    JustLoaded =>
        \A name \in Syms(Kconf(ctx[last_ctx + 1].root)) :
            ctx[last_ctx + 1].user_value[name] = LastAssigned(ctx[last_ctx + 1], name)

\* the board file sets A to y, the user's file sets it to n, the board file
\* alone sets nothing else, and n is the user value
C6_Witness ==
    /\ JustLoaded
    /\ Len(ctx[last_ctx + 1].conf_files) = 2
    /\ ConfText(ctx[last_ctx + 1], 1) = <<Line(SymA, "y")>>
    /\ ConfText(ctx[last_ctx + 1], 2) = FullText
    /\ ctx[last_ctx + 1].user_value[SymA] = "n"

\* C7: the first .conf entry of every context is the board defconfig
\* <BOARD_DIR>/<BOARD>_defconfig of the context's environment map, the
\* user's files following it.
C7_BoardFromEnv ==
    \A c \in Registered :
        c.env \in Envs =>
            objs[c.conf_files[1].doc.obj].uri =
                os_path_join(c.env.BOARD_DIR, <<c.env.BOARD, "_defconfig">>)

\* the contexts whose .conf list contains uri
Owners(uri) == {i \in DOMAIN ctx : has_file(ctx[i], objs, uri)}

SetMin(S) == CHOOSE x \in S : \A y \in S : x <= y

\* what best_ctx(uri) is to return: the most recently used context when it
\* owns uri, else the first owner, else none
ExpectedBest(uri) ==
    IF last_ctx # NoCtx /\ last_ctx + 1 \in Owners(uri) THEN last_ctx
    ELSE IF Owners(uri) # {} THEN SetMin(Owners(uri)) - 1
    ELSE NoCtx

\* C8: best_ctx(uri) returns the most recently used context when it
\* contains uri, otherwise the first context containing uri, which becomes
\* the most recently used one; when none contains uri it returns none and
\* the most recently used context is unchanged.
C8_BestCtx ==
    [][msg'.method = "textDocument/hover" =>
          /\ best' = ExpectedBest(msg'.uri)
          /\ last_ctx' = IF ExpectedBest(msg'.uri) = NoCtx THEN last_ctx
                         ELSE ExpectedBest(msg'.uri)]_vars

\* the last message asked for a new context over a Kconfig tree that
\* parses: kconfig/addBuild, or kconfig/createCtx, the name under which the
\* server registers the handler
AddBuildRequest ==
    \/ msg.method = "kconfig/addBuild"
    \/ msg.method = "kconfig/createCtx" /\ ParseOk(msg.root)

\* C9: a kconfig/addBuild request is answered with {id}, id naming a newly
\* registered context, after one publishDiagnostics notification for every
\* .conf file of that context.
C9_AddBuildAnswered ==
    AddBuildRequest =>
        /\ out # <<>>
        /\ out[Len(out)].kind = "response"
        /\ out[Len(out)].error = 0
        /\ out[Len(out)].result = CtxResult(next_id - 1)
        /\ next_id - 1 \in {c.id : c \in Registered}
        /\ Len(out) = Len(ctx[next_id].conf_files) + 1
        /\ \A i \in 1..(Len(out) - 1) :
               /\ out[i].kind = "publishDiagnostics"
               /\ out[i].uri = objs[ctx[next_id].conf_files[i].doc.obj].uri

\* the notifications of out that publish diagnostics under uri
Published(uri) ==
    {i \in DOMAIN out : out[i].kind = "publishDiagnostics" /\ out[i].uri = uri}

\* C10: after a didChange on a .conf document, every context containing it
\* has its .conf stack applied again and its files and the command-line
\* bucket published, whichever context is the most recently used one.
C10_ChangeReloadsOwners ==
    msg.method = "textDocument/didChange" /\ ~crashed =>
        \A i \in Owners(msg.uri) :
            /\ \A name \in Syms(Kconf(ctx[i].root)) :
                   ctx[i].user_value[name] = LastAssigned(ctx[i], name)
            /\ \A j \in DOMAIN ctx[i].conf_files :
                   Published(objs[ctx[i].conf_files[j].doc.obj].uri) # {}
            /\ Published(CommandLineUri) # {}

\* ------------------------------------------------------------------------
\* URIs on the wire
\* ------------------------------------------------------------------------
\* the string os.path.join(dir, base) returns: no separator after an empty
\* directory
PathStr(p) ==
    IF p.base = <<>> THEN p.dir
    ELSE IF p.dir = "" THEN p.base[1] \o p.base[2]
    ELSE p.dir \o "/" \o p.base[1] \o p.base[2]

\* Uri.file(path)
Uri_file(path) == [scheme |-> "file", authority |-> "", path |-> path]

\* Uri.__repr__ of a Uri without query and fragment
Uri_repr(u) == u.scheme \o "://" \o u.authority \o u.path

\* what encode_json writes for the Uri.file of a path
UriOnWire(p) == Uri_repr(Uri_file(PathStr(p)))

\* C11: warnings of the empty filename are collected in the command-line
\* bucket of the context, and that bucket is published under a URI that is
\* written as file:///command-line.
C11_CommandLineBucket ==
    /\ \A c \in Registered : \A i \in DOMAIN c.kdiags :
           c.kdiags[i].filename = EmptyFilename
               => \E j \in DOMAIN c.cmd_diags : c.cmd_diags[j] = c.kdiags[i].diag
    /\ \A i \in DOMAIN out :
           out[i].kind = "publishDiagnostics" /\ out[i].uri = CommandLineUri
               => UriOnWire(out[i].uri) = "file:///command-line"

\* the kinds of the warnings kconfiglib records through _warn
ParserKinds == {"undefined", "malformed", "override", "redundant", "invalid"}

\* the places of the diagnostic lists filed under a filename: <<0, j>> in
\* the command-line bucket for the empty filename, <<i, j>> in the list of
\* every .conf entry i of that file
Under(c, f) ==
    IF f = EmptyFilename THEN {<<0, j>> : j \in DOMAIN c.cmd_diags}
    ELSE UNION {{<<i, j>> : j \in DOMAIN c.conf_files[i].diags} :
                   i \in {i \in DOMAIN c.conf_files :
                             objs[c.conf_files[i].doc.obj].uri = f}}

DiagAt(c, p) ==
    IF p[1] = 0 THEN c.cmd_diags[p[2]] ELSE c.conf_files[p[1]].diags[p[2]]

\* the filenames diagnostics are filed under
Buckets(c) ==
    {EmptyFilename} \cup {objs[c.conf_files[i].doc.obj].uri : i \in DOMAIN c.conf_files}

\* the warnings filed under f, as diagnostics
WarningsUnder(c, f) ==
    {DiagAt(c, p) : p \in {q \in Under(c, f) : DiagAt(c, q).message.kind \in ParserKinds}}

\* C12: after load_config every recorded warning is in exactly one
\* diagnostic list, that of the file it names, or the command-line bucket
\* when it names none: as many times under its filename as it was
\* recorded, and nothing else is filed there.
C12_WarningsFiledOnce ==
    JustLoaded =>
        LET c == ctx[last_ctx + 1]
        IN /\ \A i \in DOMAIN c.kdiags : c.kdiags[i].filename \in Buckets(c)
           /\ \A f \in Buckets(c) :
                 \A d \in WarningsUnder(c, f)
                          \cup {c.kdiags[i].diag : i \in DOMAIN c.kdiags} :
                     Cardinality({i \in DOMAIN c.kdiags :
                                     c.kdiags[i] = [filename |-> f, diag |-> d]})
                       = Cardinality({p \in Under(c, f) : DiagAt(c, p) = d})

\* a load recorded a warning of the user's file and one without filename,
\* and the command-line bucket holds the latter
C12_Witness ==
    /\ JustLoaded
    /\ \E i, j \in DOMAIN ctx[last_ctx + 1].kdiags :
           /\ ctx[last_ctx + 1].kdiags[i].filename = EmptyFilename
           /\ ctx[last_ctx + 1].kdiags[j].filename = UserPath1
    /\ ctx[last_ctx + 1].cmd_diags # <<>>

\* the diagnostic lists of a context: one per .conf entry, and the
\* command-line bucket
DiagLists(c) ==
    [files |-> [i \in DOMAIN c.conf_files |-> c.conf_files[i].diags],
     cmd |-> c.cmd_diags]

\* what a single run of load_config leaves in a context constructed and
\* parsed anew over the same root and .conf entries, the documents being
\* what they are now
SingleRun(c) ==
    load_config(parse(KconfigContext(c.root,
                          [i \in DOMAIN c.conf_files |-> ConfFile(c.conf_files[i].doc)],
                          c.env, c.id)),
                objs, store).c

\* C13: however often load_config has run on a context, and whatever was
\* handled in between, its diagnostic lists are those a single run over
\* the present documents produces: earlier diagnostics never accumulate.
C13_LoadIdempotent ==
    JustLoaded => DiagLists(ctx[last_ctx + 1]) = DiagLists(SingleRun(ctx[last_ctx + 1]))

\* load_config ran again on a context, after a didChange, and left
\* diagnostics on a file and in the command-line bucket
C13_Witness ==
    /\ JustLoaded
    /\ msg.method = "textDocument/didChange"
    /\ ctx[last_ctx + 1].cmd_diags # <<>>
    /\ \E i \in DOMAIN ctx[last_ctx + 1].conf_files :
           ctx[last_ctx + 1].conf_files[i].diags # <<>>

\* the lines of the document of .conf entry i that assign a declared symbol
\* a literal that does not fit its type
MistypedEntries(c, i) ==
    LET lines == objs[c.conf_files[i].doc.obj].lines
        k == Kconf(c.root)
    IN {j \in DOMAIN lines :
           /\ lines[j].sym \in Syms(k)
           /\ ~ValidFor(k.syms[lines[j].sym].type, lines[j].val)}

\* the diagnostics of .conf entry i that start on line j (counted from 1)
DiagsOnLine(c, i, j) ==
    {n \in DOMAIN c.conf_files[i].diags : c.conf_files[i].diags[n].line = j - 1}

\* C14: a .conf entry whose literal does not fit the declared type of its
\* symbol gets exactly one diagnostic, of severity error and with the
\* message "Invalid type. Expected <T>", and no other check reports on it.
C14_InvalidTypeIsOneError ==
    JustLoaded =>
        LET c == ctx[last_ctx + 1]
        IN \A i \in DOMAIN c.conf_files : \A j \in MistypedEntries(c, i) :
               /\ Cardinality(DiagsOnLine(c, i, j)) = 1
               /\ \A n \in DiagsOnLine(c, i, j) :
                      /\ c.conf_files[i].diags[n].severity = ERROR
                      /\ c.conf_files[i].diags[n].message.kind = "invalid_type"

\* the assignment warnings .conf entry i holds for a symbol: the kinds of
\* its messages
AssignmentWarnings(c, i, name) ==
    {c.conf_files[i].diags[n].message.kind :
        n \in {n \in DOMAIN c.conf_files[i].diags :
                  /\ c.conf_files[i].diags[n].message.sym = name
                  /\ c.conf_files[i].diags[n].message.kind
                         \in {"couldnt_be_set", "was_assigned"}}}

\* C15: a symbol whose user value differs from its effective value is
\* warned about on its assignments with "couldn't be set" when the
\* effective value is the empty string and with "was assigned the value v,
\* but got the value v'" otherwise; a symbol whose user value is its
\* effective value gets no such warning.
C15_AssignmentWarningForm ==
    JustLoaded =>
        LET c == ctx[last_ctx + 1]
            k == Kconf(c.root)
        IN \A name \in Syms(k) : \A i \in DOMAIN c.conf_files :
               LET eff == str_value(k, c.user_value, name)
                   assigned == find(objs[c.conf_files[i].doc.obj], name) # <<>>
               IN AssignmentWarnings(c, i, name) =
                      IF c.user_value[name] = "none" \/ c.user_value[name] = eff
                         \/ ~assigned
                      THEN {}
                      ELSE IF eff = "" THEN {"couldnt_be_set"}
                      ELSE {"was_assigned"}

\* a conjunct of the direct dependencies of a symbol is missing: below the
\* requested value of a bool symbol, of value 0 for a symbol of another type
ConjunctMissing(k, uv, name, d) ==
    IF k.syms[name].type = "bool"
    THEN TriVal(str_value(k, uv, d)) < TriVal(uv[name])
    ELSE TriVal(str_value(k, uv, d)) = 0

\* r lists, in the order of the conjunction and once each, exactly the
\* missing conjuncts
ListsMissing(k, uv, name, r) ==
    LET deps == k.syms[name].direct_dep
        pos(d) == CHOOSE i \in DOMAIN deps : deps[i] = d
    IN /\ \A d \in {deps[i] : i \in DOMAIN deps} :
              (\E n \in DOMAIN r : r[n] = d) <=> ConjunctMissing(k, uv, name, d)
       /\ \A n \in DOMAIN r : \E i \in DOMAIN deps : deps[i] = r[n]
       /\ \A m, n \in DOMAIN r : m < n => pos(r[m]) < pos(r[n])

\* C16: _missing_deps(sym) returns exactly the conjuncts of the direct
\* dependencies whose value is below the user value (bool) or 0 (other
\* types), in the order of the conjunction; and that list is what the
\* assignment warning of the symbol reports.
C16_MissingDeps ==
    \A c \in Registered :
        LET k == Kconf(c.root)
        IN /\ \A name \in Syms(k) :
                  c.user_value[name] # "none"
                      => ListsMissing(k, c.user_value, name,
                                      _missing_deps(k, c.user_value, name))
           /\ ~crashed /\ c.id = last_ctx /\ JustLoaded =>
                  \A i \in DOMAIN c.conf_files : \A n \in DOMAIN c.conf_files[i].diags :
                      LET m == c.conf_files[i].diags[n].message
                      IN m.kind \in {"couldnt_be_set", "was_assigned"}
                             => ListsMissing(k, c.user_value, m.sym, m.deps)

\* a load left an int symbol with one of its two dependencies unmet, and
\* a bool symbol whose only dependency is unmet, each reported
C16_Witness ==
    /\ JustLoaded
    /\ \E i \in DOMAIN ctx[last_ctx + 1].conf_files :
         \E n \in DOMAIN ctx[last_ctx + 1].conf_files[i].diags :
           /\ ctx[last_ctx + 1].conf_files[i].diags[n].message.sym = SymI
           /\ ctx[last_ctx + 1].conf_files[i].diags[n].message.deps = <<SymS>>

\* the order in which the Kconfig file declares the nodes
DocOrder == <<0, 1, 2, 3, 5, 6, 4, 7, 8, 9>>

DocPos(n) == CHOOSE i \in DOMAIN DocOrder : DocOrder[i] = n

RECURSIVE Ancestors(_, _)
\* the ancestors of a node, the parent first
Ancestors(k, n) ==
    IF k.parent[n] = NoNode THEN <<>>
    ELSE <<k.parent[n]>> \o Ancestors(k, k.parent[n])

\* the position of the nearest menuconfig ancestor among the ancestors
NearestMenu(k, n) ==
    CHOOSE i \in DOMAIN Ancestors(k, n) :
        /\ k.is_menuconfig[Ancestors(k, n)[i]]
        /\ \A j \in 1..(i - 1) : ~k.is_menuconfig[Ancestors(k, n)[j]]

\* the nodes a menu shows: those whose nearest menuconfig ancestor it is
ShownIn(k, m) ==
    {n \in DOMAIN k.item :
        n # k.top_node.id /\ Ancestors(k, n)[NearestMenu(k, n)] = m}

\* _children lists the nodes the menu shows, once each and in the order
\* of declaration, and _suboption_depth counts the ancestors below the menu
TraversalAsStated(k, m) ==
    LET ch == _children(k, MenuNode(m))
    IN /\ {ch[i].id : i \in DOMAIN ch} = ShownIn(k, m)
       /\ \A i, j \in DOMAIN ch : i < j => DocPos(ch[i].id) < DocPos(ch[j].id)
       /\ \A i \in DOMAIN ch :
              _suboption_depth(k, ch[i]) = Val(NearestMenu(k, ch[i].id) - 1)

\* the two traversals do what the menu is said to show: the depth of
\* every node below the top node is computed, and every menu lists its nodes
MenuTraversals ==
    \A c \in Registered :
        LET k == Kconf(c.root)
        IN /\ \A n \in DOMAIN k.item \ {k.top_node.id} :
                  IsVal(_suboption_depth(k, MenuNode(n)))
           /\ \A m \in {n \in DOMAIN k.item : k.is_menuconfig[n]} :
                  TraversalAsStated(k, m)

\* C17: the items of the menu of a menuconfig node are its children in
\* sibling order, a child that is no menuconfig being followed by its own
\* flattened children, each item with the number of its ancestors below
\* the menu as depth; the depth computation ends for every node.
C17_MenuItems ==
    /\ MenuTraversals
    /\ \A c \in Registered :
           \A m \in {n \in DOMAIN Kconf(c.root).item : Kconf(c.root).is_menuconfig[n]} :
               IsVal(items(Kconf(c.root), MenuNode(m)))

\* C18: kconfig/setVal with a val sets the user value of the named symbol
\* in the addressed context and without one unsets it, the request being
\* answered with a null result; an unknown symbol on the set path is
\* answered with the error UnknownNode and changes no user value.
C18_SetValAnswered ==
    [][msg'.method = "kconfig/setVal" /\ msg'.ctx + 1 \in DOMAIN ctx =>
          LET c == msg'.ctx + 1
              name == msg'.name
              known == name \in Syms(Kconf(ctx[c].root))
              answered == out' = <<Response(msg'.id, NullResult, 0)>>
          IN IF msg'.val = NoVal
             THEN /\ known => ctx'[c].user_value[name] = "none"
                  /\ answered
             ELSE IF known
             THEN ValidFor(Kconf(ctx[c].root).syms[name].type, msg'.val) =>
                      /\ ctx'[c].user_value[name] = msg'.val
                      /\ answered
             ELSE /\ Len(out') = 1
                  /\ out'[1].kind = "response"
                  /\ out'[1].error = UNKNOWN_NODE
                  /\ \A i \in DOMAIN ctx : ctx'[i].user_value = ctx[i].user_value
      ]_vars

\* the contents of the .conf stack of a context, file by file
StackContents(c) ==
    [i \in DOMAIN c.conf_files |->
        IF c.conf_files[i].doc.isdoc THEN objs[c.conf_files[i].doc.obj].lines
        ELSE DiskText(c.conf_files[i].doc.path)]

\* the effective value of every symbol of a context
EffectiveValues(c) ==
    [name \in Syms(Kconf(c.root)) |-> str_value(Kconf(c.root), c.user_value, name)]

\* C19: two contexts with the same root declarations and the same ordered
\* .conf stack contents have the same effective value for every symbol,
\* whatever was handled before.
C19_ValuesDependOnStackOnly ==
    ~crashed =>
        \A c1, c2 \in Registered :
            c1.root = c2.root /\ ParseOk(c1.root)
            /\ StackContents(c1) = StackContents(c2)
                => EffectiveValues(c1) = EffectiveValues(c2)

\* a step of send(): one more message of out is on the output stream
IsSendStep == sent' = sent + 1 /\ out' = out

\* C20: messages are handled strictly one at a time: the notifications a
\* handler sends and the response of a request are written before the
\* next frame is read, and between two frames nothing but the output
\* stream changes, so that each handler starts from the complete state the
\* earlier messages left.
C20_OneAtATime ==
    [][IF IsSendStep
       THEN /\ sent < Len(out)
            /\ UNCHANGED <<objs, store, ctx, next_id, last_ctx, msg, best, crashed>>
       ELSE sent = Len(out) /\ sent' = 0
      ]_vars

\* the notification of a request is written, its response is not yet
C20_Witness ==
    /\ Len(out) = 2
    /\ out[1].kind = "publishDiagnostics"
    /\ out[2].kind = "response"
    /\ "id" \in DOMAIN msg
    /\ sent = 1

\* the methods of the messages explored for which no handler is registered
UnknownMethods == {"kconfig/addBuild"}

HandlerRaised == crashed

\* C22: when the handler of a request raises, the request is answered with
\* an error response, of code UnknownErrorCode or of the code of the
\* RPCError raised, and the server loop goes on.
C22_ExceptionAnswered ==
    HandlerRaised /\ "id" \in DOMAIN msg =>
        /\ ~crashed
        /\ Len(out) = 1
        /\ out[1].kind = "response"
        /\ out[1].id = msg.id
        /\ out[1].error \in {UNKNOWN_ERROR_CODE, UNKNOWN_NODE, DESYNC}

\* the last message asked for a context over a root the parser rejects
BrokenRootRequest == msg.method = "kconfig/createCtx" /\ ~ParseOk(msg.root)

\* C23: when parsing the Kconfig root fails while a context is created, the
\* manager still retains the context, marked invalid, under its id, and
\* the server goes on answering.
C23_BrokenContextRetained ==
    BrokenRootRequest =>
        /\ ~crashed
        /\ \E c \in Registered : c.root = msg.root /\ ~c.parsed

\* the files of the Kconfig declaration tree
TreeFiles == {KconfigPath}

\* a didChange notification is handled in this step
IsChangeStep == msg'.method = "textDocument/didChange" /\ ~IsSendStep

\* the document changed in this step holds declarations only: it is a file
\* of the tree and no .conf file of a context
TreeChange ==
    /\ msg'.uri \in TreeFiles
    /\ \A i \in DOMAIN ctx : ~has_file(ctx[i], objs, msg'.uri)
    /\ objs'[store[msg'.uri]].lines # objs[store[msg'.uri]].lines

\* C24: the symbol graph of a context is discarded and built again, the
\* parse version going up, when a file of the Kconfig declaration tree
\* changes; a change of a .conf document leaves the parse version of every
\* context as it is.
C24_ReparseOnTreeChange ==
    [][IsChangeStep /\ store[msg'.uri] # 0 /\ (TreeChange \/ msg'.uri \notin TreeFiles) =>
          /\ DOMAIN ctx' = DOMAIN ctx
          /\ \A i \in DOMAIN ctx :
                 ctx'[i].version = IF TreeChange /\ ctx[i].parsed
                                   THEN ctx[i].version + 1
                                   ELSE ctx[i].version
      ]_vars

\* what a context is for good: its id, its root, its environment map and
\* the documents of its .conf stack
Identity(c) ==
    [id |-> c.id, root |-> c.root, env |-> c.env,
     docs |-> [j \in DOMAIN c.conf_files |-> c.conf_files[j].doc]]

\* the ids under which contexts are registered
CtxIds == {ctx[i].id : i \in DOMAIN ctx}

\* C25: a context registered under an id stays registered under it, no
\* operation removing or replacing it; the ids are handed out as 0, 1, 2,
\* ... without reuse; a creation that fails registers nothing and takes
\* no id.
C25_ContextsRetained ==
    [][/\ \A i \in DOMAIN ctx :
              i \in DOMAIN ctx' /\ Identity(ctx'[i]) = Identity(ctx[i])
       /\ CtxIds = 0..(next_id - 1)
       /\ \A i, j \in DOMAIN ctx : ctx[i].id = ctx[j].id => i = j
       /\ IF Len(ctx') > Len(ctx)
          THEN /\ Len(ctx') = Len(ctx) + 1
               /\ ctx'[Len(ctx')].id = next_id
               /\ next_id' = next_id + 1
          ELSE next_id' = next_id
      ]_vars

\* a creation failed after a context was registered, and the next one
\* got the next id
C25_Witness ==
    /\ crashed
    /\ msg.method = "kconfig/createCtx"
    /\ Len(ctx) = 1
    /\ ctx[1].id = 0
    /\ ctx[1].version > 1
    /\ next_id = 1

\* the names of the add-build request: the one of the protocol and the one
\* the handler is registered under
AddBuildMethods == {"kconfig/addBuild", "kconfig/createCtx"}

\* C26: contexts are created by add-build requests only: no other message,
\* didOpen and didChange in particular, adds a context to the manager or
\* makes a new context the most recently used one.
C26_OnlyAddBuildCreates ==
    [][Len(ctx') > Len(ctx) \/ (last_ctx' # last_ctx /\ last_ctx' \notin CtxIds)
           => msg'.method \in AddBuildMethods
      ]_vars

\* C27: no sequence of messages ever writes a .conf document to disk: a
\* document is written by close() only, after it was opened in mode 'w'
\* or 'a' and modified, and the handlers open documents for reading only,
\* every document being closed again when the handler returns.
C27_NeverWritten ==
    \A i \in DOMAIN objs : ~objs[i].written /\ objs[i].mode = "none"

\* a document the client changed, hence modified, was read by load_config
\* and closed
C27_Witness ==
    /\ JustLoaded
    /\ msg.method = "textDocument/didChange"
    /\ msg.uri = UserPath1
    /\ store[UserPath1] # 0
    /\ objs[store[UserPath1]].modified
    /\ objs[store[UserPath1]].lines = FullText
    /\ has_file(ctx[last_ctx + 1], objs, UserPath1)

\* the documents of the store and their contents: path -> lines, for the
\* paths a document is stored under
StoreContents(os, st) ==
    [p \in {q \in StorePaths : st[q] # 0} |-> os[st[p]].lines]

DocumentNotifications ==
    {"textDocument/didOpen", "textDocument/didChange", "textDocument/didClose"}

\* C28: the set of documents of the store and their contents change only
\* while a didOpen, didChange or didClose notification is handled; every
\* other handler leaves the store as it is.
C28_StoreFrame ==
    [][StoreContents(objs', store') # StoreContents(objs, store)
           => msg'.method \in DocumentNotifications
      ]_vars

\* the variables the environment map of a context sets
EnvVars(c) == {v \in DOMAIN c.env : c.env[v] # ""}

\* C29: whenever the parser is invoked for a context, the process
\* environment has just been updated from the environment map of that
\* context: the parse of every context sees the values of its own map.
C29_ParseSeesOwnEnv ==
    \A c \in Registered :
        c.parsed => \A v \in EnvVars(c) : c.kconfig_env[v] = c.env[v]

\* ------------------------------------------------------------------------
\* Positions and offsets of a TextDocument
\* ------------------------------------------------------------------------
MaxLines == 3       \* lines of the documents explored
MaxLineLen == 2     \* characters of a line

LF == "\n"

\* the lines explored: up to MaxLineLen characters, none of them a line end
LineStrs == UNION {[1..n -> {"a"}] : n \in 0..MaxLineLen}

\* the documents explored, as what _set_text leaves in lines
DocLines == UNION {[1..n -> LineStrs] : n \in 1..MaxLines}

RECURSIVE JoinLF(_)
\* '\n'.join(lines)
JoinLF(lines) ==
    IF lines = <<>> THEN <<>>
    ELSE IF Len(lines) = 1 THEN lines[1]
    ELSE lines[1] \o <<LF>> \o JoinLF(Tail(lines))

\* TextDocument.text
TextDocument_text(doc) == JoinLF(doc.lines)

RECURSIVE SplitLF(_)
\* str.split('\n')
SplitLF(str_) ==
    IF \A i \in DOMAIN str_ : str_[i] # LF THEN <<str_>>
    ELSE LET i == CHOOSE i \in DOMAIN str_ :
                      str_[i] = LF /\ \A j \in 1..(i - 1) : str_[j] # LF
         IN <<SubSeq(str_, 1, i - 1)>> \o SplitLF(SubSeq(str_, i + 1, Len(str_)))

\* str.splitlines() of a string whose only line ends are '\n': a line end
\* at the end of the string opens no further line
splitlines(str_) ==
    LET parts == SplitLF(str_)
    IN IF parts[Len(parts)] = <<>> THEN SubSeq(parts, 1, Len(parts) - 1)
       ELSE parts

\* Position(line, character)
Position(line, character) == [line |-> line, character |-> character]

RECURSIVE LenWithLF(_)
\* len(''.join([l + '\n' for l in lines]))
LenWithLF(lines) ==
    IF lines = <<>> THEN 0 ELSE Len(lines[1]) + 1 + LenWithLF(Tail(lines))

\* TextDocument.offset(pos)
TextDocument_offset(doc, p) ==
    IF p.line = 0 THEN p.character
    ELSE LenWithLF(SubSeq(doc.lines, 1, p.line)) + p.character

\* TextDocument.pos(offset): lines[-1] of an empty list raises
TextDocument_pos(doc, offset) ==
    LET content == SubSeq(TextDocument_text(doc), 1, offset)
        lines == splitlines(content)
    IN IF lines = <<>> THEN Exc("IndexError")
       ELSE Val(Position(Len(lines) - 1, Len(lines[Len(lines)])))

\* the valid positions of a document
ValidPositions(doc) ==
    {Position(l, ch) : l \in 0..(Len(doc.lines) - 1), ch \in 0..MaxLineLen}
        \cap {p \in [line : 0..MaxLines, character : 0..MaxLineLen] :
                 p.line < Len(doc.lines) /\ p.character <= Len(doc.lines[p.line + 1])}

\* a server that holds one document of the store, of any of the texts
InitDoc ==
    /\ objs \in {<<TextDocument(UserPath1, ls)>> : ls \in DocLines}
    /\ store = [p \in StorePaths |-> IF p = UserPath1 THEN 1 ELSE 0]
    /\ ctx = <<>>
    /\ next_id = 0
    /\ last_ctx = NoCtx
    /\ msg = [method |-> "none"]
    /\ out = <<>>
    /\ best = NotCalled
    /\ crashed = FALSE
    /\ sent = 0

\* a call of offset(p) on the document
CallOffset(p) ==
    /\ msg' = [method |-> "offset", pos |-> p,
               ret |-> TextDocument_offset(objs[1], p)]
    /\ UNCHANGED <<objs, store, ctx, next_id, last_ctx, out, best, crashed, sent>>

\* a call of pos() on the offset the last call returned
CallPos ==
    /\ msg.method = "offset"
    /\ msg' = [method |-> "pos", pos |-> msg.pos, offset |-> msg.ret,
               ret |-> TextDocument_pos(objs[1], msg.ret)]
    /\ UNCHANGED <<objs, store, ctx, next_id, last_ctx, out, best, crashed, sent>>

NextDoc ==
    \/ \E p \in ValidPositions(objs[1]) : CallOffset(p)
    \/ CallPos

SpecDoc == InitDoc /\ [][NextDoc]_vars

\* C30: for every document and every valid position p, pos(offset(p)) is
\* p: in particular pos(0) is Position(0, 0), and the position at
\* character 0 of a later line maps back to itself.
C30_PosOfOffset ==
    msg.method = "pos" => msg.ret = Val(msg.pos)

\* ------------------------------------------------------------------------
\* Edits of a TextDocument
\* ------------------------------------------------------------------------
MaxEditLines == 2   \* lines of the documents edited
Beyond == 9999      \* a character index beyond the end of every line

Min(a, b) == IF a < b THEN a ELSE b

\* str_[a:b] and str_[a:] of Python for indices that are not negative
Slice(str_, a, b) == SubSeq(str_, Min(a, Len(str_)) + 1, Min(b, Len(str_)))
SliceFrom(str_, a) == SubSeq(str_, Min(a, Len(str_)) + 1, Len(str_))

\* Range(start, end)
Range(start, end) == [start |-> start, end |-> end]

\* Position.before(other)
before(p, other) ==
    \/ p.line < other.line
    \/ p.line = other.line /\ p.character < other.character

\* TextDocument.replace(text, range) with a range: _set_text of the text
\* before the start, the new text and the text from the end on
TextDocument_replace(doc, text, range) ==
    LET old == TextDocument_text(doc)
        new == Slice(old, 0, TextDocument_offset(doc, range.start))
                   \o text \o SliceFrom(old, TextDocument_offset(doc, range.end))
    IN [doc EXCEPT !.lines = splitlines(new), !.loaded = TRUE,
                   !.modified = TRUE]

\* the texts a replace() puts in: empty, one line, with a line end at the
\* end, at the start and in the middle
EditTexts ==
    {<<>>, <<"a">>, <<LF>>, <<"a", LF>>, <<LF, "a">>, <<"a", LF, "a">>}

\* the valid positions of a document, those of an empty document included
ValidPositionsOf(doc) ==
    IF doc.lines = <<>> THEN {Position(0, 0)} ELSE ValidPositions(doc)

\* the positions of the lines of a document at a character beyond the end
\* of the line: just after it and far after it
BeyondPositions(doc) ==
    {Position(l, ch) : l \in 0..(Len(doc.lines) - 1),
                       ch \in {MaxLineLen + 1, Beyond}}
        \cap {p \in [line : 0..MaxLines, character : {MaxLineLen + 1, Beyond}] :
                 p.character > Len(doc.lines[p.line + 1])}

\* the ranges of the edits: from a valid position to a valid position not
\* before it, a line from its start to beyond its end, and the empty
\* range beyond the end of a line
EditRanges(doc) ==
    {r \in {Range(p, q) : p, q \in ValidPositionsOf(doc)} :
        ~before(r.end, r.start)}
    \cup {Range(Position(q.line, 0), q) : q \in BeyondPositions(doc)}
    \cup {Range(q, q) : q \in BeyondPositions(doc)}

\* whether the lines fit the documents explored
FitsDoc(lines) ==
    /\ Len(lines) <= MaxEditLines
    /\ \A i \in DOMAIN lines : Len(lines[i]) <= MaxLineLen

\* a server that holds one document: an empty one as TextDocument(uri)
\* makes it, or one with a text, modified or as read from disk
InitEdit ==
    /\ objs \in {<<[TextDocument(UserPath1, ls) EXCEPT !.modified = m]>> :
                    ls \in {d \in DocLines \cup {<<>>} : FitsDoc(d)},
                    m \in BOOLEAN}
    /\ store = [p \in StorePaths |-> IF p = UserPath1 THEN 1 ELSE 0]
    /\ ctx = <<>>
    /\ next_id = 0
    /\ last_ctx = NoCtx
    /\ msg = [method |-> "none"]
    /\ out = <<>>
    /\ best = NotCalled
    /\ crashed = FALSE
    /\ sent = 0

\* a call of replace(text, range) on the document
CallReplace(text, range) ==
    /\ FitsDoc(TextDocument_replace(objs[1], text, range).lines)
    /\ objs' = <<TextDocument_replace(objs[1], text, range)>>
    /\ msg' = [method |-> "replace", text |-> text, range |-> range,
               doc |-> objs[1]]
    /\ UNCHANGED <<store, ctx, next_id, last_ctx, out, best, crashed, sent>>

NextEdit ==
    \E text \in EditTexts : \E range \in EditRanges(objs[1]) :
        CallReplace(text, range)

SpecEdit == InitEdit /\ [][NextEdit]_vars

\* a range of valid positions of the document
ValidRange(doc, range) ==
    /\ range.start \in ValidPositionsOf(doc)
    /\ range.end \in ValidPositionsOf(doc)

\* C31: after replace(s, r) with a valid range r the new text is the old
\* text before r.start, then s, then the old text after r.end; the
\* substring of length len(s) at r.start is s, for every s, multi-line
\* texts and texts ending in a line break included; the document is
\* marked modified.
C31_ReplaceSplices ==
    (msg.method = "replace" /\ ValidRange(msg.doc, msg.range)) =>
        LET old == TextDocument_text(msg.doc)
            a == TextDocument_offset(msg.doc, msg.range.start)
            b == TextDocument_offset(msg.doc, msg.range.end)
            new == TextDocument_text(objs[1])
        IN /\ new = Slice(old, 0, a) \o msg.text \o SliceFrom(old, b)
           /\ Slice(new, a, a + Len(msg.text)) = msg.text
           /\ objs[1].modified

\* a position with its character cut down to the end of its line
ClampToLine(doc, p) ==
    Position(p.line, Min(p.character, Len(doc.lines[p.line + 1])))

\* C32: a range endpoint whose character lies beyond the end of its line
\* denotes the end of that line: on any line l of a multi-line document,
\* replace(s, Range((l, 0), (l, 9999))) replaces the content of line l and
\* replace(s, Range((l, 9999), (l, 9999))) inserts at the end of line l,
\* as the same call with the end of line l does, the following lines
\* being left as they are.
C32_BeyondIsLineEnd ==
    (/\ msg.method = "replace"
     /\ Len(msg.doc.lines) > 1
     /\ msg.range.end \in BeyondPositions(msg.doc)) =>
        objs[1].lines =
            TextDocument_replace(msg.doc, msg.text,
                Range(ClampToLine(msg.doc, msg.range.start),
                      ClampToLine(msg.doc, msg.range.end))).lines

\* C33: the text of a non-empty document ends with a line terminator:
\* replacing the empty range of an empty document by a line yields the
\* line followed by a newline, and every later replace keeps the newline
\* after the last line.
C33_EndsWithNewline ==
    (msg.method = "replace" /\ TextDocument_text(objs[1]) # <<>>) =>
        TextDocument_text(objs[1])[Len(TextDocument_text(objs[1]))] = LF

\* ------------------------------------------------------------------------
\* Uri
\* ------------------------------------------------------------------------
\* strings are sequences of characters, as in the documents above

\* Uri(scheme, authority, path, query, fragment)
Uri(scheme, authority, path, query, fragment) ==
    [scheme |-> scheme, authority |-> authority, path |-> path,
     query |-> query, fragment |-> fragment]

\* chr(n): the characters the escapes explored stand for by name, any
\* other one by its code
Chr(n) ==
    CASE n = 34 -> "\""
      [] n = 47 -> "/"
      [] n = 123 -> "{"
      [] OTHER -> "chr(" \o ToString(n) \o ")"

\* the length of the longest prefix of str_ made of characters of the set
RunLen(str_, set) ==
    IF \A i \in DOMAIN str_ : str_[i] \in set THEN Len(str_)
    ELSE (CHOOSE i \in DOMAIN str_ :
              str_[i] \notin set /\ \A j \in 1..(i - 1) : str_[j] \in set) - 1

\* the characters explored
UriChars == {"f", "g", "h", "a", "b", "q", "B", "F", "2", "7",
             ":", "/", "?", "#", "%", " "}

RECURSIVE PercentSub(_)
\* re.sub(r'%(\d+)', lambda x: chr(int(x.group(1))), part): a '%' with
\* all the decimal digits that follow it becomes the character of that
\* decimal code
PercentSub(part) ==
    IF part = <<>> THEN <<>>
    ELSE LET n == RunLen(Tail(part), {c \in UriChars : IsDigit(c)})
         IN IF part[1] = "%" /\ n > 0
            THEN <<Chr(DigitsVal(SubSeq(part, 2, n + 1), 0))>>
                     \o PercentSub(SubSeq(part, n + 2, Len(part)))
            ELSE <<part[1]>> \o PercentSub(Tail(part))

\* sanitize(part) of Uri.parse; a group that took no part in the match is
\* None and becomes ''
sanitize(part) == IF part # <<>> THEN PercentSub(part) ELSE <<>>

\* the first index from which sub occurs in str_, 0 when there is none
Find(str_, sub) ==
    LET at == {i \in 1..(Len(str_) - Len(sub) + 1) :
                  SubSeq(str_, i, i + Len(sub) - 1) = sub}
    IN IF at = {} THEN 0 ELSE CHOOSE i \in at : \A j \in at : i <= j

\* Uri.parse(raw) of a string without line ends:
\* re.match(r'(.*?)://(.*?)(/[^?\s]*)(?:\?([^#]+))?(?:#(.+))?', raw), the
\* match starting at the start of raw and ending where the pattern ends;
\* None when there is no match
Uri_parse(raw) ==
    LET i == Find(raw, <<":", "/", "/">>)
        rest == SubSeq(raw, i + 3, Len(raw))
        j == Find(rest, <<"/">>)
        frompath == SubSeq(rest, j, Len(rest))
        k == 1 + RunLen(Tail(frompath), UriChars \ {"?", " "})
        afterpath == SubSeq(frompath, k + 1, Len(frompath))
        hasq == /\ Len(afterpath) >= 2
                /\ afterpath[1] = "?"
                /\ afterpath[2] # "#"
        m == IF hasq THEN RunLen(Tail(afterpath), UriChars \ {"#"}) ELSE 0
        query == IF hasq THEN SubSeq(afterpath, 2, m + 1) ELSE <<>>
        afterq == IF hasq THEN SubSeq(afterpath, m + 2, Len(afterpath))
                  ELSE afterpath
        hasf == Len(afterq) >= 2 /\ afterq[1] = "#"
        fragment == IF hasf THEN Tail(afterq) ELSE <<>>
    IN IF i = 0 \/ j = 0 THEN None
       ELSE Val(Uri(sanitize(SubSeq(raw, 1, i - 1)),
                    sanitize(SubSeq(rest, 1, j - 1)),
                    sanitize(SubSeq(frompath, 1, k)),
                    sanitize(query),
                    sanitize(fragment)))

\* Uri.__str__, which is __repr__, of any Uri
Uri_str(uri) ==
    uri.scheme \o <<":", "/", "/">> \o uri.authority \o uri.path
        \o (IF uri.query # <<>> THEN <<"?">> \o uri.query ELSE <<>>)
        \o (IF uri.fragment # <<>> THEN <<"#">> \o uri.fragment ELSE <<>>)

RECURSIVE os_path_basename(_)
\* os.path.basename(path): what follows the last '/'
os_path_basename(path) ==
    IF Find(path, <<"/">>) = 0 THEN path
    ELSE os_path_basename(SubSeq(path, Find(path, <<"/">>) + 1, Len(path)))

\* Uri.basename
Uri_basename(uri) == os_path_basename(uri.path)

\* the strings handed to Uri.parse, by the parts they are written from:
\* scheme, '://' or ':', authority, path, and what follows the path
UriParts ==
    [scheme : {<<"f">>, <<"g">>},
     sep : {<<":", "/", "/">>, <<":">>},
     authority : {<<>>, <<"h">>},
     path : {<<"/", "a">>, <<"/", "a", "/", "b">>, <<"/", "%", "7", "B">>,
             <<"/", "a", " ", "b">>},
     query : {<<>>, <<"?">>, <<"?", "q">>,
              <<"?", "%", "2", "2", "q", "%", "2", "F">>},
     fragment : {<<>>, <<"#">>, <<"#", "f">>}]

\* the string written from the parts
UriString(parts) ==
    parts.scheme \o parts.sep \o parts.authority \o parts.path
        \o parts.query \o parts.fragment

\* no call was made yet
InitUri ==
    /\ objs = <<>>
    /\ store = [p \in StorePaths |-> 0]
    /\ ctx = <<>>
    /\ next_id = 0
    /\ last_ctx = NoCtx
    /\ msg = [method |-> "none"]
    /\ out = <<>>
    /\ best = NotCalled
    /\ crashed = FALSE
    /\ sent = 0

\* a call of Uri.parse(raw)
CallParse(parts) ==
    /\ msg' = [method |-> "parse", parts |-> parts, raw |-> UriString(parts),
               ret |-> Uri_parse(UriString(parts))]
    /\ UNCHANGED <<objs, store, ctx, next_id, last_ctx, out, best, crashed, sent>>

\* a call of str() on the Uri the last call returned
CallStr ==
    /\ msg.method = "parse"
    /\ ~IsNone(msg.ret)
    /\ msg' = [method |-> "str", parts |-> msg.parts, raw |-> msg.raw,
               ret |-> Uri_str(msg.ret.val)]
    /\ UNCHANGED <<objs, store, ctx, next_id, last_ctx, out, best, crashed, sent>>

NextUri ==
    \/ \E parts \in UriParts : CallParse(parts)
    \/ CallStr

SpecUri == InitUri /\ [][NextUri]_vars

\* the characters of a string
Range_(str_) == {str_[i] : i \in DOMAIN str_}

\* a part without the '?' or '#' it starts with
Tail_(part) == IF part = <<>> THEN <<>> ELSE Tail(part)

\* the parts that make a URI of the form scheme://authority/path, with
\* or without ?query and #fragment, neither of them empty when present,
\* and no white space in the path
WellFormed(parts) ==
    /\ parts.sep = <<":", "/", "/">>
    /\ " " \notin Range_(parts.path)
    /\ Len(parts.query) # 1
    /\ Len(parts.fragment) # 1

\* C34: for every URI string u that Uri.parse accepts, str(Uri.parse(u))
\* is u.
C34_ParseThenStr ==
    (msg.method = "str" /\ WellFormed(msg.parts)) => msg.ret = msg.raw

\* the value of a hexadecimal digit
HexVal(ch) ==
    IF IsDigit(ch) THEN DigitVal(ch)
    ELSE CASE ch = "A" -> 10 [] ch = "B" -> 11 [] ch = "C" -> 12
           [] ch = "D" -> 13 [] ch = "E" -> 14 [] ch = "F" -> 15

IsHex(ch) == IsDigit(ch) \/ ch \in {"A", "B", "C", "D", "E", "F"}

RECURSIVE PercentDecoded(_)
\* a string with every %NN, NN being two hexadecimal digits, replaced by
\* the character of that hexadecimal code, all else unchanged
PercentDecoded(str_) ==
    IF str_ = <<>> THEN <<>>
    ELSE IF /\ Len(str_) >= 3
            /\ str_[1] = "%"
            /\ IsHex(str_[2])
            /\ IsHex(str_[3])
    THEN <<Chr(16 * HexVal(str_[2]) + HexVal(str_[3]))>>
             \o PercentDecoded(SubSeq(str_, 4, Len(str_)))
    ELSE <<str_[1]>> \o PercentDecoded(Tail(str_))

\* C35: Uri.parse decodes every percent-escape %NN of the path and of the
\* query to the character with the hexadecimal code NN (%7B to '{', %22
\* to '"', %2F to '/') and leaves all other characters unchanged (here
\* for URIs without a fragment).
C35_PercentDecoding ==
    (/\ msg.method = "parse"
     /\ WellFormed(msg.parts)
     /\ msg.parts.fragment = <<>>
     /\ ~IsNone(msg.ret)) =>
        /\ msg.ret.val.path = PercentDecoded(msg.parts.path)
        /\ msg.ret.val.query = PercentDecoded(Tail_(msg.parts.query))

\* the last segment of a path, which starts with '/'
LastSegment(path) ==
    LET i == CHOOSE i \in DOMAIN path :
                 path[i] = "/" /\ \A j \in (i + 1)..Len(path) : path[j] # "/"
    IN SubSeq(path, i + 1, Len(path))

\* the forms test_uri.py parses: scheme://authority/path?query#fragment
\* and file:///path, and scheme:/path?query without '//'
KnownForm(parts) ==
    /\ " " \notin Range_(parts.path)
    /\ Len(parts.query) # 1
    /\ Len(parts.fragment) # 1
    /\ parts.fragment = <<>> \/ parts.query # <<>>
    /\ \/ parts.sep = <<":", "/", "/">>
       \/ parts.sep = <<":">> /\ parts.authority = <<>> /\ parts.fragment = <<>>

\* C36: Uri.parse splits a URI into scheme, authority, path, query and
\* fragment, basename being the last segment of the path and a missing
\* authority, query or fragment the empty string, for the forms
\* scheme://authority/path?query#fragment, file:///path and
\* scheme:/path?query (here for URIs without percent-escapes).
C36_ParseSplits ==
    (/\ msg.method = "parse"
     /\ KnownForm(msg.parts)
     /\ "%" \notin Range_(msg.raw)) =>
        /\ msg.ret = Val(Uri(msg.parts.scheme, msg.parts.authority,
                             msg.parts.path, Tail_(msg.parts.query),
                             Tail_(msg.parts.fragment)))
        /\ Uri_basename(msg.ret.val) = LastSegment(msg.parts.path)

\* ------------------------------------------------------------------------
\* Requests and responses
\* ------------------------------------------------------------------------
\* the responses among the messages the handling of the last message sent
ResponsesSent == {i \in DOMAIN out : out[i].kind = "response"}

\* C37: for any sequence of incoming messages, every request (a message
\* with an id) receives exactly one response, of the same id and sent
\* after its handler has run, hence after every message the handler sent,
\* and a notification (no id) receives none; so the slot of the pending
\* request is empty when the next frame is read.
C37_OneResponsePerRequest ==
    msg.method # "none" =>
        IF "id" \in DOMAIN msg
        THEN /\ ResponsesSent = {Len(out)}
             /\ out # <<>>
             /\ out[Len(out)].id = msg.id
        ELSE ResponsesSent = {}

\* ------------------------------------------------------------------------
\* A TextDocument as a file
\* ------------------------------------------------------------------------
MaxScan == 4        \* the scan positions explored
MaxText == 3        \* characters of the texts written to

\* a call that returns: the document after it and what it returned
Returns(doc, ret) == [doc |-> doc, ret |-> ret]

\* a call that raises: the document as the call left it and the exception
Raises(doc, name) == [doc |-> doc, ret |-> Exc(name)]

\* the modes open() takes
FileModes == {"w", "a", "r"}

\* TextDocument.open(mode) of a loaded document
File_open(doc, mode) ==
    IF mode \notin FileModes THEN Raises(doc, "IOError")
    ELSE Returns(TextDocument_open(doc, mode), None)

\* TextDocument.close()
File_close(doc) == Returns(TextDocument_close(doc), None)

\* TextDocument.write(text)
File_write(doc, text) ==
    IF doc.mode \notin {"a", "w"} THEN Raises(doc, "IOError")
    ELSE IF ~doc.loaded THEN Raises(doc, "IOError")
    ELSE LET lines == splitlines(TextDocument_text(doc) \o text)
         IN Returns([doc EXCEPT !.lines = lines,
                                !.scanpos = IF doc.mode = "a"
                                            THEN Len(JoinLF(lines)) ELSE @,
                                !.modified = TRUE],
                    None)

NoLength == 0 - 1   \* length=None of read()

\* TextDocument.read(length)
File_read(doc, length) ==
    LET text == TextDocument_text(doc)
    IN IF doc.mode # "r" THEN Raises(doc, "IOError")
       ELSE IF doc.scanpos >= Len(text) THEN Returns(doc, Val(<<>>))
       ELSE IF length = NoLength
       THEN Returns([doc EXCEPT !.scanpos = Len(text)],
                    Val(SliceFrom(text, doc.scanpos)))
       ELSE Returns([doc EXCEPT !.scanpos = @ + length],
                    Val(Slice(text, doc.scanpos, doc.scanpos + length)))

\* str.splitlines(True)[0] of a string that is not empty: the first line
\* with its line end
FirstLine(str_) ==
    IF Find(str_, <<LF>>) = 0 THEN str_ ELSE SubSeq(str_, 1, Find(str_, <<LF>>))

\* a readline() that returns the line without its line end
ReadlineStripped(doc) ==
    LET text == TextDocument_text(doc)
        line == FirstLine(SliceFrom(text, doc.scanpos))
    IN IF doc.mode # "r" THEN Raises(doc, "IOError")
       ELSE IF doc.scanpos >= Len(text) THEN Returns(doc, Val(<<>>))
       ELSE Returns([doc EXCEPT !.scanpos = @ + Len(line)],
                    Val(SelectSeq(line, LAMBDA ch : ch # LF)))

\* TextDocument.readline()
File_readline(doc) ==
    LET text == TextDocument_text(doc)
        line == FirstLine(SliceFrom(text, doc.scanpos))
    IN IF doc.mode # "r" THEN Raises(doc, "IOError")
       ELSE IF doc.scanpos >= Len(text) THEN Returns(doc, Val(<<>>))
       ELSE Returns([doc EXCEPT !.scanpos = @ + Len(line)], Val(line))

\* TextDocument.readlines()
File_readlines(doc) ==
    LET text == TextDocument_text(doc)
    IN IF doc.mode # "r" THEN Raises(doc, "IOError")
       ELSE IF doc.scanpos >= Len(text) THEN Returns(doc, Val(<<>>))
       ELSE Returns([doc EXCEPT !.scanpos = Len(text)],
                    Val(splitlines(SliceFrom(text, doc.scanpos))))

\* a seek() that does not look at the mode
SeekAnyMode(doc, offset) == Returns([doc EXCEPT !.scanpos = offset], None)

\* TextDocument.seek(offset)
File_seek(doc, offset) ==
    IF doc.mode = "none" THEN Raises(doc, "IOError")
    ELSE Returns([doc EXCEPT !.scanpos = offset], None)

\* TextDocument.next()
File_next(doc) ==
    IF doc.mode # "r" THEN Raises(doc, "IOError")
    ELSE IF doc.scanpos >= Len(TextDocument_text(doc))
    THEN Raises(doc, "StopIteration")
    ELSE File_readline(doc)

\* the texts of the documents at the start
FileTexts == {<<<<"a">>>>, <<<<"a">>, <<"a">>>>, <<<<>>, <<"a">>>>}

\* the texts written
WriteTexts == {<<>>, <<"a">>, <<LF, LF>>}

\* a server that holds one document with a text, not opened
InitFile ==
    /\ objs \in {<<TextDocument(UserPath1, ls)>> : ls \in FileTexts}
    /\ store = [p \in StorePaths |-> IF p = UserPath1 THEN 1 ELSE 0]
    /\ ctx = <<>>
    /\ next_id = 0
    /\ last_ctx = NoCtx
    /\ msg = [method |-> "none"]
    /\ out = <<>>
    /\ best = NotCalled
    /\ crashed = FALSE
    /\ sent = 0

\* the pieces read since the document was opened, in one string, when the
\* call is a read()/readline() that returned; none after any other call
\* but those that were rejected
ReadSince(method, r) ==
    IF method \in {"read", "readline"} /\ ~IsExc(r.ret) /\ "since" \in DOMAIN msg
    THEN msg.since \o r.ret.val
    ELSE IF method = "open" /\ ~IsExc(r.ret) THEN <<>>
    ELSE IF IsExc(r.ret) /\ "since" \in DOMAIN msg THEN msg.since
    ELSE <<"?">>

\* a call on the document: msg records the call, the document before it,
\* what it returned or raised, and what was read since open()
Call(method, arg, r) ==
    /\ r.doc.scanpos <= MaxScan
    /\ Len(TextDocument_text(r.doc)) <= MaxText
    /\ objs' = <<r.doc>>
    /\ msg' = [method |-> method, arg |-> arg, doc |-> objs[1], ret |-> r.ret,
               since |-> ReadSince(method, r)]
    /\ UNCHANGED <<store, ctx, next_id, last_ctx, out, best, crashed, sent>>

CallOpen(mode) == Call("open", mode, File_open(objs[1], mode))
CallClose == Call("close", "", File_close(objs[1]))
CallWrite(text) == Call("write", text, File_write(objs[1], text))
CallRead(length) == Call("read", length, File_read(objs[1], length))
CallReadline == Call("readline", "", File_readline(objs[1]))
CallReadlines == Call("readlines", "", File_readlines(objs[1]))
CallSeek(offset) == Call("seek", offset, File_seek(objs[1], offset))
CallNext == Call("next", "", File_next(objs[1]))

NextFile ==
    \/ \E mode \in FileModes \cup {"x"} : CallOpen(mode)
    \/ CallClose
    \/ \E text \in WriteTexts : CallWrite(text)
    \/ \E length \in {NoLength} \cup 1..2 : CallRead(length)
    \/ CallReadline
    \/ CallReadlines
    \/ \E offset \in 0..MaxScan : CallSeek(offset)
    \/ CallNext

SpecFile == InitFile /\ [][NextFile]_vars

\* the last call was rejected with IOError
Rejected == msg.ret = Exc("IOError")

\* C38: in every state of a TextDocument, read, readline, readlines and
\* next raise IOError unless the document is open in mode 'r', write
\* raises IOError unless the mode is 'a' or 'w', seek raises IOError on a
\* closed document and open raises IOError for a mode other than 'r', 'w'
\* and 'a'; a rejected call leaves the text, the scan position, the mode
\* and the modified flag as they were.
C38_RejectedCalls ==
    msg.method # "none" =>
        /\ msg.method \in {"read", "readline", "readlines", "next"} =>
               (Rejected <=> msg.doc.mode # "r")
        /\ msg.method = "write" => (Rejected <=> msg.doc.mode \notin {"a", "w"})
        /\ msg.method = "seek" => (Rejected <=> msg.doc.mode = "none")
        /\ msg.method = "open" => (Rejected <=> msg.arg \notin {"r", "w", "a"})
        /\ Rejected =>
               /\ TextDocument_text(objs[1]) = TextDocument_text(msg.doc)
               /\ objs[1].scanpos = msg.doc.scanpos
               /\ objs[1].mode = msg.doc.mode
               /\ objs[1].modified = msg.doc.modified

\* a write was rejected on a document that is being read, part of its
\* text read already
C38_Witness ==
    /\ msg.method = "write"
    /\ Rejected
    /\ msg.doc.mode = "r"
    /\ msg.doc.scanpos > 0
    /\ msg.doc.scanpos < Len(TextDocument_text(msg.doc))

\* since the document was opened, nothing was called but read() and
\* readline() and calls that were rejected
OnlyReadSinceOpen == "since" \in DOMAIN msg /\ "?" \notin Range_(msg.since)

\* after open('r') the scan position is 0; the pieces that the read() and
\* readline() calls since then returned are consecutive pieces of the text
\* from its start, a call returning the empty string only when the whole
\* text was returned
ReadsInOrder ==
    /\ (msg.method = "open" /\ msg.arg = "r") => objs[1].scanpos = 0
    /\ (/\ msg.method \in {"read", "readline"}
        /\ ~IsExc(msg.ret)
        /\ OnlyReadSinceOpen) =>
           /\ msg.since = Slice(TextDocument_text(objs[1]), 0, objs[1].scanpos)
           /\ msg.ret.val = <<>> <=> msg.doc.scanpos >= Len(TextDocument_text(objs[1]))
           /\ msg.ret.val = <<>> => msg.since = TextDocument_text(objs[1])

\* the last call moved the scan position back
ScanposDecreased == msg.method # "none" /\ objs[1].scanpos < msg.doc.scanpos

MaxRangeLine == 1   \* lines of the positions of the ranges explored
MaxRangeChar == 2   \* characters of these positions

\* Range.union(a, b) of two ranges: both branches of the conditional for
\* the end are b.end
Range_union(a, b) ==
    Range(IF before(a.start, b.start) THEN a.start ELSE b.start,
          IF before(a.end, b.end) THEN b.end ELSE b.end)

\* Range.contains(pos)
Range_contains(range, pos) ==
    ~before(pos, range.start) /\ ~before(range.end, pos)

\* the positions and the ranges explored: start not after end
RangePositions ==
    {Position(l, ch) : l \in 0..MaxRangeLine, ch \in 0..MaxRangeChar}

Ranges ==
    {r \in {Range(p, q) : p, q \in RangePositions} : ~before(r.end, r.start)}

\* no call was made yet
InitRange ==
    /\ objs = <<>>
    /\ store = [p \in StorePaths |-> 0]
    /\ ctx = <<>>
    /\ next_id = 0
    /\ last_ctx = NoCtx
    /\ msg = [method |-> "none"]
    /\ out = <<>>
    /\ best = NotCalled
    /\ crashed = FALSE
    /\ sent = 0

\* a call of Range.union(a, b)
CallUnion(a, b) ==
    /\ msg' = [method |-> "union", a |-> a, b |-> b, ret |-> Range_union(a, b)]
    /\ UNCHANGED <<objs, store, ctx, next_id, last_ctx, out, best, crashed, sent>>

NextRange == \E a, b \in Ranges : CallUnion(a, b)

SpecRange == InitRange /\ [][NextRange]_vars

\* C40: Range.union(a, b) is the smallest range that contains a and b:
\* its start is the earlier of the two starts and its end the later of
\* the two ends, so that union(a, b) is union(b, a) and every position
\* that a or b contains is contained in the union.
C40_UnionIsHull ==
    msg.method = "union" =>
        /\ msg.ret.start =
               IF before(msg.b.start, msg.a.start) THEN msg.b.start ELSE msg.a.start
        /\ msg.ret.end =
               IF before(msg.a.end, msg.b.end) THEN msg.b.end ELSE msg.a.end
        /\ msg.ret = Range_union(msg.b, msg.a)
        /\ \A pos \in RangePositions :
               Range_contains(msg.a, pos) \/ Range_contains(msg.b, pos)
                   => Range_contains(msg.ret, pos)
====
